---- MODULE Spec2Model ----
(***************************************************************************)
(* A model of the RISC-V 32 Liftoff backend of V8                          *)
(* (src/wasm/baseline/riscv32/liftoff-assembler-riscv32.h).                *)
(*                                                                         *)
(* The C++ code is a code generator: each lowering appends machine         *)
(* instructions to a buffer.  The model keeps the two levels apart:        *)
(*   - the "emitters" (AtomicBinop, AtomicCompareExchange, Spill, ...)     *)
(*     are operators that return the instruction sequence the C++ emits,   *)
(*     translated line by line;                                            *)
(*   - the instruction semantics (Exec..., the load-reserved /             *)
(*     store-conditional rules, the vector unit) execute those sequences   *)
(*     on a machine state.                                                 *)
(* Machine words are 32 bits wide.  TLC's integers are 32-bit signed, so a *)
(* word is the pair <<high half, low half>> of two 16-bit numbers and all  *)
(* arithmetic is carried out on the halves, modulo 2^32.                   *)
(***************************************************************************)
EXTENDS Integers, Sequences, FiniteSets, TLC

VARIABLES
  \* ---- two harts running the code of AtomicBinop on shared memory
  acode,     \* the emitted sequence (one compilation, run by every thread)
  ain,       \* [thread -> the register file it enters the sequence with]
  ainit,     \* the word the location held at the start
  amem,      \* shared memory: [address -> word]
  ares,      \* [thread -> reserved address, or NoAddr]
  areg,      \* [thread -> register file]
  apc,       \* [thread -> index into acode; 0 before an operation begins]
  aiter,     \* [thread -> operations completed]
  asucc,     \* number of successful store-conditionals so far
  aargs,     \* the operands the sequence was compiled for
  \* ---- the two-phase stack frame: the code buffer and a hart entering
  \*      the function
  fcode,     \* the instruction buffer
  fphase,    \* "start", "prepared", "patched", "running", "body", "overflow"
  fargs,     \* placeholder offset, frame size, configured stack size, the
             \* stack limit and the stack pointer on entry
  fpc,       \* index of the next instruction (1-based)
  freg,      \* register file of the hart
  fdec,      \* number of executed instructions that changed sp
  \* ---- one hart running a straight-line lowering (spill/fill, register
  \*      moves, vector lanes) on scalar, float and vector registers
  mcode,     \* the emitted sequence
  mphase,    \* "start", "running", "done", "fatal", "bailout", "trap"
  margs,     \* the operands the sequence was compiled for
  mpc,       \* index of the next instruction (1-based)
  mst        \* machine state: [gp, fr, vr, mem, sew]

atomVars == <<acode, ain, ainit, amem, ares, areg, apc, aiter, asucc, aargs>>
frameVars == <<fcode, fphase, fargs, fpc, freg, fdec>>
machVars == <<mcode, mphase, margs, mpc, mst>>

vars == <<atomVars, frameVars, machVars>>

(* Every specification below runs one part of the backend; the variables   *)
(* of the other parts rest at these values and do not change.              *)
IdleAtom ==
  /\ acode = <<>> /\ ain = <<>> /\ ainit = <<>> /\ amem = <<>> /\ ares = <<>>
  /\ areg = <<>> /\ apc = <<>> /\ aiter = <<>> /\ asucc = 0 /\ aargs = <<>>
IdleFrame ==
  /\ fcode = <<>> /\ fphase = "idle" /\ fargs = <<>> /\ fpc = 0
  /\ freg = <<>> /\ fdec = 0
IdleMach ==
  /\ mcode = <<>> /\ mphase = "idle" /\ margs = <<>> /\ mpc = 0 /\ mst = <<>>

OthersIdle(part) ==
  /\ IF part = "atom" THEN TRUE ELSE IdleAtom
  /\ IF part = "frame" THEN TRUE ELSE IdleFrame
  /\ IF part = "mach" THEN TRUE ELSE IdleMach

OthersUnchanged(part) ==
  /\ IF part = "atom" THEN TRUE ELSE UNCHANGED atomVars
  /\ IF part = "frame" THEN TRUE ELSE UNCHANGED frameVars
  /\ IF part = "mach" THEN TRUE ELSE UNCHANGED machVars

----------------------------------------------------------------------------
(* 32-bit words as <<high 16 bits, low 16 bits>>.                          *)

Half == 2^16

W(hi, lo) == <<hi, lo>>

\* The word of an integer of C's int32_t range (two's complement).
FromInt(n) == <<(n \div Half) % Half, n % Half>>

Zero32 == W(0, 0)
One32 == W(0, 1)

Add32(a, b) ==
  LET lo == a[2] + b[2]
      hi == a[1] + b[1] + (lo \div Half)
  IN  <<hi % Half, lo % Half>>

Neg32(a) == Add32(<<(Half - 1) - a[1], (Half - 1) - a[2]>>, One32)

Sub32(a, b) == Add32(a, Neg32(b))

\* Unsigned comparison.
Ult32(a, b) == a[1] < b[1] \/ (a[1] = b[1] /\ a[2] < b[2])
Uge32(a, b) == ~Ult32(a, b)

\* Bitwise operations on 16-bit halves, bit by bit.
RECURSIVE BitOp16(_, _, _, _)
BitOp16(f, x, y, n) ==
  IF n = 0 THEN 0
  ELSE LET bx == x % 2
           by == y % 2
           b  == CASE f = "and" -> IF bx = 1 /\ by = 1 THEN 1 ELSE 0
                   [] f = "or"  -> IF bx = 1 \/ by = 1 THEN 1 ELSE 0
                   [] OTHER     -> IF bx # by THEN 1 ELSE 0
       IN  b + 2 * BitOp16(f, x \div 2, y \div 2, n - 1)

And32(a, b) == <<BitOp16("and", a[1], b[1], 16), BitOp16("and", a[2], b[2], 16)>>
Or32(a, b)  == <<BitOp16("or",  a[1], b[1], 16), BitOp16("or",  a[2], b[2], 16)>>
Xor32(a, b) == <<BitOp16("xor", a[1], b[1], 16), BitOp16("xor", a[2], b[2], 16)>>

----------------------------------------------------------------------------
(* Registers.  The Liftoff cache registers are the ones values live in;    *)
(* the scratch registers are handed out by UseScratchRegisterScope and are *)
(* never cache registers.                                                  *)

CacheRegs == {"a0", "a1", "a2", "a3", "a4"}
ScratchRegs == {"t3", "t5"}
kScratchReg == "s3"
kScratchReg2 == "s4"
sp == "sp"
fp == "fp"
kWasmInstanceRegister == "a0"
zero_reg == "zero"
no_reg == "no_reg"
GpRegs == CacheRegs \cup ScratchRegs \cup {zero_reg}
\* Word <-> small non-negative integer (code offsets).
ToInt(w) == w[1] * Half + w[2]

\* One machine instruction: a mnemonic and its operands.  Absent operands
\* are no_reg / 0 so that all instructions have one shape.
Ins(op, rd, rs1, rs2, imm) ==
  [op |-> op, rd |-> rd, rs1 |-> rs1, rs2 |-> rs2, imm |-> imm]

\* Writing a register: x0 is hard-wired to zero.
SetReg(r, rd, v) == IF rd = zero_reg THEN r ELSE [r EXCEPT ![rd] = v]

\* The effect on the register file of the instructions that touch nothing
\* else.
ExecAlu(i, r) ==
  CASE i.op = "add"  -> SetReg(r, i.rd, Add32(r[i.rs1], r[i.rs2]))
    [] i.op = "sub"  -> SetReg(r, i.rd, Sub32(r[i.rs1], r[i.rs2]))
    [] i.op = "and"  -> SetReg(r, i.rd, And32(r[i.rs1], r[i.rs2]))
    [] i.op = "or"   -> SetReg(r, i.rd, Or32(r[i.rs1], r[i.rs2]))
    [] i.op = "xor"  -> SetReg(r, i.rd, Xor32(r[i.rs1], r[i.rs2]))
    [] i.op = "mv"   -> SetReg(r, i.rd, r[i.rs1])
    [] i.op = "addi" -> SetReg(r, i.rd, Add32(r[i.rs1], FromInt(i.imm)))
    [] i.op = "li"   -> SetReg(r, i.rd, FromInt(i.imm))
    [] OTHER         -> r

AluOps == {"add", "sub", "and", "or", "xor", "mv", "addi", "li"}

----------------------------------------------------------------------------
(* Register allocation helpers of the surrounding assembler.               *)

\* LiftoffAssembler::GetUnusedRegister(kGpReg, pinned): some cache register
\* outside pinned.  Which one depends on the cache state of the function
\* being compiled, so every candidate is possible.
UnusedRegisters(pinned) == CacheRegs \ pinned

\* UseScratchRegisterScope::Acquire: the scope hands out its registers in a
\* fixed order (n-th call, n-th register).
Acquire(n) == IF n = 1 THEN "t3" ELSE "t5"

----------------------------------------------------------------------------
(* liftoff::CalculateActualAddress                                         *)

CalculateActualAddress(addr_reg, offset_reg, offset_imm, result_reg) ==
  <<Ins("add", result_reg, addr_reg, offset_reg, 0)>>
  \o (IF offset_imm # 0
      THEN <<Ins("addi", result_reg, result_reg, no_reg, offset_imm)>>
      ELSE <<>>)


----------------------------------------------------------------------------
(* liftoff::AtomicBinop.  store_result and fresh are the registers the two *)
(* GetUnusedRegister calls return; retry is the index the label is bound   *)
(* at, and a branch carries the index of its target.                       *)

WordTypes == {"kI32Store", "kI64Store32"}
ByteTypes == {"kI32Store8", "kI64Store8"}
HalfTypes == {"kI32Store16", "kI64Store16"}

BinopIns(op, temp, result_reg, value) ==
  CASE op = "kAdd" -> Ins("add", temp, result_reg, value, 0)
    [] op = "kSub" -> Ins("sub", temp, result_reg, value, 0)
    [] op = "kAnd" -> Ins("and", temp, result_reg, value, 0)
    [] op = "kOr"  -> Ins("or",  temp, result_reg, value, 0)
    [] op = "kXor" -> Ins("xor", temp, result_reg, value, 0)
    [] OTHER       -> Ins("mv",  temp, value, no_reg, 0)       \* kExchange

\* The load of the retry loop (first switch on the store type).
BinopLoad(type, result_reg, actual_addr) ==
  CASE type \in ByteTypes -> <<Ins("lbu", result_reg, actual_addr, no_reg, 0),
                               Ins("sync", no_reg, no_reg, no_reg, 0)>>
    [] type \in HalfTypes -> <<Ins("lhu", result_reg, actual_addr, no_reg, 0),
                               Ins("sync", no_reg, no_reg, no_reg, 0)>>
    [] type \in WordTypes -> <<Ins("lr_w", result_reg, actual_addr, no_reg, 0)>>
    [] OTHER              -> <<Ins("lr_d", result_reg, actual_addr, no_reg, 0)>>

\* A faulty variant of BinopStore: the word-width store done the way the narrow
\* widths do it, as a plain store that always reports success.
BinopStorePlain(type, store_result, actual_addr, temp) ==
  <<Ins("sync", no_reg, no_reg, no_reg, 0),
    Ins("sw", no_reg, actual_addr, temp, 0),
    Ins("sync", no_reg, no_reg, no_reg, 0),
    Ins("mv", store_result, zero_reg, no_reg, 0)>>

\* A faulty variant of BinopStore: every width stores with a
\* store-conditional, also the narrow ones whose load made no reservation.
BinopStoreConditional(type, store_result, actual_addr, temp) ==
  <<Ins("sc_w", store_result, actual_addr, temp, 0)>>

\* The store of the retry loop (second switch on the store type).
\* sc_w(aq, rl, rd, rs1, rs2): rd <- status, rs1 the address, rs2 the value.
BinopStore(type, store_result, actual_addr, temp) ==
  CASE type \in ByteTypes -> <<Ins("sync", no_reg, no_reg, no_reg, 0),
                               Ins("sb", no_reg, actual_addr, temp, 0),
                               Ins("sync", no_reg, no_reg, no_reg, 0),
                               Ins("mv", store_result, zero_reg, no_reg, 0)>>
    [] type \in HalfTypes -> <<Ins("sync", no_reg, no_reg, no_reg, 0),
                               Ins("sh", no_reg, actual_addr, temp, 0),
                               Ins("sync", no_reg, no_reg, no_reg, 0),
                               Ins("mv", store_result, zero_reg, no_reg, 0)>>
    [] OTHER              -> <<Ins("sc_w", store_result, actual_addr, temp, 0)>>

\* A faulty variant of AtomicBinop's branch: the retry branch goes to the
\* computation instead of the load, so a retry reuses the stale value.
BinopRetryTargetStale(retry, loadLen) == retry + loadLen

\* The target of bnez(store_result, &retry): the label bound before the load.
BinopRetryTarget(retry, loadLen) == retry

AtomicBinop(dst_addr, offset_reg, offset_imm, value, result, type, op, store_result, fresh) ==
  LET result_reg == IF result = value \/ result = dst_addr \/ result = offset_reg
                    THEN fresh ELSE result
      actual_addr == Acquire(1)
      temp == Acquire(2)
      addr == CalculateActualAddress(dst_addr, offset_reg, offset_imm, actual_addr)
      retry == Len(addr) + 1
      load == BinopLoad(type, result_reg, actual_addr)
  IN  addr
      \o load
      \o <<BinopIns(op, temp, result_reg, value)>>
      \o BinopStore(type, store_result, actual_addr, temp)
      \o <<Ins("bnez", no_reg, store_result, no_reg,
               BinopRetryTarget(retry, Len(load)))>>
      \o (IF result_reg # result
          THEN <<Ins("mv", result, result_reg, no_reg, 0)>>
          ELSE <<>>)

\* The registers AtomicBinop may get from its GetUnusedRegister calls:
\* pinned = {dst_addr, offset_reg, value, result}, then store_result is
\* pinned as well; the second call is made only if result aliases an input.
BinopAllocations(dst_addr, offset_reg, value, result) ==
  LET pinned == {dst_addr, offset_reg, value, result}
      aliased == result = value \/ result = dst_addr \/ result = offset_reg
  IN  {<<s, f>> \in CacheRegs \X (CacheRegs \cup {no_reg}) :
         /\ s \in UnusedRegisters(pinned)
         /\ IF aliased THEN f \in UnusedRegisters(pinned \cup {s})
                       ELSE f = no_reg}


----------------------------------------------------------------------------
(* Harts on shared memory.  Memory is sequentially consistent (every       *)
(* instruction is one step), so fences only advance the program counter.   *)
(* A load-reserved registers a reservation on its address; a               *)
(* store-conditional succeeds only if the hart still holds a reservation   *)
(* on the address it stores to, writes 0 to rd on success and 1 on         *)
(* failure, and gives the reservation up either way; any store that        *)
(* succeeds ends the other harts' reservations on that address.            *)

Threads == {"T1", "T2"}
NoAddr == <<>>
TrapPc == 0 - 1

\* The number of operations each thread performs.
MaxIter == 2

LoadOps == {"lw", "lbu", "lhu", "lr_w"}
StoreOps == {"sw", "sb", "sh"}

LoadedValue(op, m) ==
  CASE op = "lbu" -> W(0, m[2] % 256)
    [] op = "lhu" -> W(0, m[2])
    [] OTHER      -> m

StoredValue(op, m, v) ==
  CASE op = "sb" -> W(m[1], (m[2] \div 256) * 256 + (v[2] % 256))
    [] op = "sh" -> W(m[1], v[2])
    [] OTHER     -> v

\* Reservations after hart t stored to address a.
AfterStore(res, t, a) ==
  [u \in DOMAIN res |-> IF u = t \/ res[u] = a THEN NoAddr ELSE res[u]]

\* One instruction i of hart t: the new register file, program counter,
\* memory and reservations, and whether a store-conditional succeeded.
HartExec(i, t, r, pc, mem, res) ==
  LET a == IF i.op \in {"lw", "sw"} THEN Add32(r[i.rs1], FromInt(i.imm)) ELSE r[i.rs1]
      same == [r |-> r, pc |-> pc + 1, mem |-> mem, res |-> res, sc |-> 0]
  IN  CASE i.op \in AluOps ->
             [same EXCEPT !.r = ExecAlu(i, r)]
        [] i.op \in {"sync", "fence"} -> same
        [] i.op \in LoadOps ->
             IF a \notin DOMAIN mem THEN [same EXCEPT !.pc = TrapPc]
             ELSE [same EXCEPT !.r = SetReg(r, i.rd, LoadedValue(i.op, mem[a])),
                               !.res = IF i.op = "lr_w"
                                       THEN [res EXCEPT ![t] = a] ELSE res]
        [] i.op \in StoreOps ->
             IF a \notin DOMAIN mem THEN [same EXCEPT !.pc = TrapPc]
             ELSE [same EXCEPT !.mem = [mem EXCEPT ![a] =
                                          StoredValue(i.op, mem[a], r[i.rs2])],
                               !.res = AfterStore(res, t, a)]
        [] i.op = "sc_w" ->
             IF res[t] = a /\ a \in DOMAIN mem
             THEN [same EXCEPT !.r = SetReg(r, i.rd, Zero32),
                               !.mem = [mem EXCEPT ![a] = r[i.rs2]],
                               !.res = AfterStore(res, t, a),
                               !.sc = 1]
             ELSE [same EXCEPT !.r = SetReg(r, i.rd, One32),
                               !.res = [res EXCEPT ![t] = NoAddr]]
        [] i.op = "bnez" ->
             [same EXCEPT !.pc = IF r[i.rs1] # Zero32 THEN i.imm ELSE pc + 1]
        [] i.op = "bne" ->
             [same EXCEPT !.pc = IF r[i.rs1] # r[i.rs2] THEN i.imm ELSE pc + 1]
        [] OTHER -> [same EXCEPT !.pc = TrapPc]    \* no such RV32 instruction

----------------------------------------------------------------------------
(* Two threads, each performing MaxIter atomic read-modify-write           *)
(* operations on one location with the code of one AtomicBinop call.       *)

AtomBase == W(0, 4096)
AtomIndex == W(0, 64)
AtomImms == {0, 8}
AtomAddr(imm) == Add32(Add32(AtomBase, AtomIndex), FromInt(imm))
AllOnes == W(Half - 1, Half - 1)
AtomInits == {Zero32, AllOnes}
AtomOperands == {One32, W(0, Half - 1)}
BinopKinds == {"kAdd", "kSub", "kAnd", "kOr", "kXor", "kExchange"}
\* The operations the two-thread scenario is run with.
AtomOps == {"kAdd", "kExchange"}

\* The register file a thread enters the sequence with: the operands of the
\* operation in their registers.
BinopInputs(args, v) ==
  [x \in GpRegs |->
     CASE x = args.value -> v
       [] x = args.dst_addr -> AtomBase
       [] x = args.offset_reg -> AtomIndex
       [] OTHER -> Zero32]

InitAtomic ==
  /\ ainit \in AtomInits
  /\ \E value \in {"a2"}, result \in {"a0", "a2", "a3"}, imm \in AtomImms,
        type \in WordTypes, op \in AtomOps :
       \E al \in BinopAllocations("a0", "a1", value, result) :
         /\ aargs = [dst_addr |-> "a0", offset_reg |-> "a1", offset_imm |-> imm,
                     value |-> value, result |-> result, op |-> op]
         /\ acode = AtomicBinop("a0", "a1", imm, value, result, type, op,
                                al[1], al[2])
         /\ amem = [a \in {AtomAddr(imm)} |-> ainit]
  /\ \E f \in [Threads -> AtomOperands] :
       ain = [t \in Threads |-> BinopInputs(aargs, f[t])]
  /\ ares = [t \in Threads |-> NoAddr]
  /\ areg = [t \in Threads |-> [x \in GpRegs |-> Zero32]]
  /\ apc = [t \in Threads |-> 0]
  /\ aiter = [t \in Threads |-> 0]
  /\ asucc = 0
  /\ OthersIdle("atom")

\* The wasm code materialises the operands and enters the sequence.
ABegin(t) ==
  /\ apc[t] = 0
  /\ aiter[t] < MaxIter
  /\ areg' = [areg EXCEPT ![t] = ain[t]]
  /\ apc' = [apc EXCEPT ![t] = 1]
  /\ UNCHANGED <<acode, ain, ainit, amem, ares, aiter, asucc, aargs>>
  /\ OthersUnchanged("atom")

\* The hart executes the instruction at its program counter.
AStep(t) ==
  /\ apc[t] \in 1..Len(acode)
  /\ LET n == HartExec(acode[apc[t]], t, areg[t], apc[t], amem, ares)
     IN  /\ areg' = [areg EXCEPT ![t] = n.r]
         /\ apc' = [apc EXCEPT ![t] = n.pc]
         /\ amem' = n.mem
         /\ ares' = n.res
         /\ asucc' = asucc + n.sc
  /\ UNCHANGED <<acode, ain, ainit, aiter, aargs>>
  /\ OthersUnchanged("atom")

\* The hart has run off the end of the sequence: the operation is complete.
AFinish(t) ==
  /\ apc[t] = Len(acode) + 1
  /\ aiter' = [aiter EXCEPT ![t] = @ + 1]
  /\ apc' = [apc EXCEPT ![t] = 0]
  /\ UNCHANGED <<acode, ain, ainit, amem, ares, areg, asucc, aargs>>
  /\ OthersUnchanged("atom")

NextAtomic == \E t \in Threads : ABegin(t) \/ AStep(t) \/ AFinish(t)

SpecAtomic == InitAtomic /\ [][NextAtomic]_vars

----------------------------------------------------------------------------
(* Claims about the word-width retry loop.                                 *)

AtomTarget == AtomAddr(aargs.offset_imm)
AllDone == \A t \in Threads : aiter[t] = MaxIter /\ apc[t] = 0

RECURSIVE AddTimes(_, _, _)
AddTimes(w, v, n) == IF n = 0 THEN w ELSE AddTimes(Add32(w, v), v, n - 1)

\* The location after every thread has added its operand MaxIter times.
Operand(t) == ain[t][aargs.value]
ExpectedSum == AddTimes(AddTimes(ainit, Operand("T1"), MaxIter), Operand("T2"), MaxIter)

AThread(t) == ABegin(t) \/ AStep(t) \/ AFinish(t)
\* Progress does not depend on the operand values or the immediate offset:
\* the fair runs start from the compilations of InitAtomic with one choice
\* of both.
InitAtomicFair ==
  /\ InitAtomic
  /\ ainit = AllOnes
  /\ aargs.offset_imm = 0
  /\ \A t \in Threads : ain[t][aargs.value] = One32
SpecAtomicFair ==
  /\ InitAtomicFair
  /\ [][NextAtomic]_vars
  /\ \A t \in Threads : WF_vars(AThread(t))

\* Positions in the emitted sequence.
IndexOfOp(o) == CHOOSE k \in 1..Len(acode) : acode[k].op = o
AtBranch(t) == apc[t] \in 1..Len(acode) /\ acode[apc[t]].op = "bnez"
\* Thread t is inside the retry loop and its store has not succeeded yet.
InLoop(t) ==
  /\ apc[t] \in IndexOfOp("lr_w")..IndexOfOp("bnez")
  /\ ~(AtBranch(t) /\ areg[t][acode[apc[t]].rs1] = Zero32)
\* Thread t has left the loop of its current operation.
PastLoop(t) ==
  \/ apc[t] > IndexOfOp("bnez")
  \/ AtBranch(t) /\ areg[t][acode[apc[t]].rs1] = Zero32
Completed == aiter["T1"] + aiter["T2"]

\* The branch closing the loop: back to the load-reserved after a failed
\* store-conditional, out of the loop after a successful one.
BranchRule ==
  \A t \in Threads :
    (AtBranch(t) /\ apc'[t] # apc[t]) =>
      IF areg[t][acode[apc[t]].rs1] # Zero32
      THEN apc'[t] = IndexOfOp("lr_w")
      ELSE apc'[t] = apc[t] + 1

\* Every thread past its loop got there by a successful store-conditional of
\* its own: successes = completed operations + threads past the loop.
OneSuccessPerExit ==
  asucc = Completed + Cardinality({t \in Threads : PastLoop(t)})

----------------------------------------------------------------------------
(* LiftoffAssembler::AtomicCompareExchange.  fresh is the register the     *)
(* GetUnusedRegister call returns when result is one of the pinned inputs. *)

\* The loop body for one store type: the load, the branch to done when the
\* loaded value is not the expected one, the store.
\* sc_w(aq, rl, rd, rs1, rs2) is called with rs1 = new_value and
\* rs2 = actual_addr.
CmpXchgBody(type, result, result_reg, expected, new_value, actual_addr, store_result, done) ==
  CASE type \in ByteTypes ->
         <<Ins("lbu", result_reg, actual_addr, no_reg, 0),
           Ins("sync", no_reg, no_reg, no_reg, 0),
           Ins("bne", no_reg, result, expected, done),
           Ins("sync", no_reg, no_reg, no_reg, 0),
           Ins("sb", no_reg, actual_addr, new_value, 0),
           Ins("sync", no_reg, no_reg, no_reg, 0),
           Ins("mv", store_result, zero_reg, no_reg, 0)>>
    [] type \in HalfTypes ->
         <<Ins("lhu", result_reg, actual_addr, no_reg, 0),
           Ins("sync", no_reg, no_reg, no_reg, 0),
           Ins("bne", no_reg, result, expected, done),
           Ins("sync", no_reg, no_reg, no_reg, 0),
           Ins("sh", no_reg, actual_addr, new_value, 0),
           Ins("sync", no_reg, no_reg, no_reg, 0),
           Ins("mv", store_result, zero_reg, no_reg, 0)>>
    [] type \in WordTypes ->
         <<Ins("lr_w", result_reg, actual_addr, no_reg, 0),
           Ins("bne", no_reg, result, expected, done),
           Ins("sc_w", store_result, new_value, actual_addr, 0)>>
    [] OTHER ->
         <<Ins("lr_d", result_reg, actual_addr, no_reg, 0),
           Ins("bne", no_reg, result, expected, done),
           Ins("sc_d", store_result, new_value, actual_addr, 0)>>

CmpXchgBodyLen(type) ==
  IF type \in ByteTypes \cup HalfTypes THEN 7 ELSE 3

AtomicCompareExchange(dst_addr, offset_reg, offset_imm, expected, new_value, result, type, fresh) ==
  LET pinned == {dst_addr, offset_reg, expected, new_value}
      result_reg == IF result \in pinned THEN fresh ELSE result
      actual_addr == Acquire(1)
      store_result == Acquire(2)
      addr == CalculateActualAddress(dst_addr, offset_reg, offset_imm, actual_addr)
      retry == Len(addr) + 1
      done == retry + CmpXchgBodyLen(type) + 1
  IN  addr
      \o CmpXchgBody(type, result, result_reg, expected, new_value,
                     actual_addr, store_result, done)
      \o <<Ins("bnez", no_reg, store_result, no_reg, retry)>>
      \o (IF result_reg # result
          THEN <<Ins("mv", result, result_reg, no_reg, 0)>>
          ELSE <<>>)

\* The register GetUnusedRegister(kGpReg, pinned) may return, or no_reg when
\* the call is not made.
CmpXchgAllocations(dst_addr, offset_reg, expected, new_value, result) ==
  LET pinned == {dst_addr, offset_reg, expected, new_value}
  IN  IF result \in pinned THEN UnusedRegisters(pinned) ELSE {no_reg}

----------------------------------------------------------------------------
(* One thread performing word-width compare-exchanges, for every           *)
(* assignment of the operand registers.                                    *)

CmpXchgValues == {W(0, 5), W(0, 7)}

\* The operands of the operation in their registers (args.value is the
\* register of new_value).  An operand register
\* that is shared by two operands holds one value: the later operand of the
\* list wins.
CmpXchgInputs(args, e, n) ==
  [x \in GpRegs |->
     CASE x = args.dst_addr -> AtomBase
       [] x = args.offset_reg -> AtomIndex
       [] x = args.value -> n
       [] x = args.expected -> e
       [] OTHER -> Zero32]

InitCmpXchg ==
  /\ ainit \in CmpXchgValues
  /\ \E expected \in {"a2", "a3"}, new_value \in {"a2", "a3"},
        result \in CacheRegs, imm \in AtomImms, type \in WordTypes :
       \E fresh \in CmpXchgAllocations("a0", "a1", expected, new_value, result) :
         /\ aargs = [dst_addr |-> "a0", offset_reg |-> "a1", offset_imm |-> imm,
                     value |-> new_value, result |-> result, op |-> "kCompareExchange",
                     expected |-> expected]
         /\ acode = AtomicCompareExchange("a0", "a1", imm, expected, new_value,
                                          result, type, fresh)
         /\ amem = [a \in {AtomAddr(imm)} |-> ainit]
  /\ \E e \in CmpXchgValues, n \in CmpXchgValues :
       ain = [t \in Threads |-> CmpXchgInputs(aargs, e, n)]
  /\ ares = [t \in Threads |-> NoAddr]
  /\ areg = [t \in Threads |-> [x \in GpRegs |-> Zero32]]
  /\ apc = [t \in Threads |-> 0]
  /\ aiter = [t \in Threads |-> IF t = "T1" THEN 0 ELSE MaxIter]
  /\ asucc = 0
  /\ OthersIdle("atom")

SpecCmpXchg == InitCmpXchg /\ [][NextAtomic]_vars

\* The register the loop loads into, and the values the claim speaks of.
CxLoadReg == acode[IndexOfOp("lr_w")].rd
CxLoaded(t) == areg[t][CxLoadReg]
CxExpected(t) == ain[t][aargs.expected]
AtOp(t, o) == apc[t] \in 1..Len(acode) /\ acode[apc[t]].op = o

\* C2: for every assignment of registers to the operands (result may be one
\* of the inputs), the step from the comparing branch goes to the
\* store-conditional if and only if the value just loaded equals the
\* expected value, and otherwise leaves the loop with memory unchanged.
C2_StoreIffEqual ==
  [][\A t \in Threads :
       (AtOp(t, "bne") /\ apc'[t] # apc[t]) =>
         /\ (apc'[t] = IndexOfOp("sc_w")) <=> (CxLoaded(t) = CxExpected(t))
         /\ (CxLoaded(t) # CxExpected(t)) =>
              (apc'[t] > IndexOfOp("bnez") /\ amem' = amem)]_vars

----------------------------------------------------------------------------
(* The two-phase stack frame: PrepareStackFrame reserves a placeholder in  *)
(* the prologue, PatchPrepareStackFrame overwrites it once the frame size  *)
(* is known.  Code offsets are in bytes; instruction k of the buffer (from *)
(* 1) is at offset kInstrSize * (k - 1).                                   *)

kInstrSize == 4
kSystemPointerSize == 4
KB == 2^10
kHeapObjectTag == 1
\* WasmInstanceObject::kRealStackLimitAddressOffset: a field offset of the
\* instance object; the model only needs it to be one fixed offset.
kRealStackLimitAddressOffset == 2^6

pc_offset(buf) == kInstrSize * Len(buf)
IndexOf(offset) == (offset \div kInstrSize) + 1

is_int12(n) == -2048 <= n /\ n <= 2047
\* C++ integer division by two (truncating).
HalfOf(n) == IF n < 0 THEN -((-n) \div 2) ELSE n \div 2

\* TurboAssembler::Add(rd, rs, Operand(imm)): one addi when the immediate
\* fits 12 bits, two addi for the next 2048 on either side, otherwise the
\* immediate is loaded into a scratch register of the scope and added.
AddImm(rd, rs, imm) ==
  IF is_int12(imm) THEN <<Ins("addi", rd, rs, no_reg, imm)>>
  ELSE IF (-4096 <= imm /\ imm <= -2049) \/ (2048 <= imm /\ imm <= 4094)
  THEN <<Ins("addi", rd, rs, no_reg, HalfOf(imm)),
         Ins("addi", rd, rd, no_reg, imm - HalfOf(imm))>>
  ELSE <<Ins("li", Acquire(1), no_reg, no_reg, imm),
         Ins("add", rd, rs, Acquire(1), 0)>>

\* TurboAssembler::GenPCRelativeJump(rd, imm32): auipc + jr, two
\* instructions; the jump lands imm32 bytes from the auipc.
GenPCRelativeJump(rd, imm32) ==
  <<Ins("auipc", rd, no_reg, no_reg, imm32), Ins("jr", no_reg, rd, no_reg, 0)>>

Nop == Ins("nop", no_reg, no_reg, no_reg, 0)

\* LiftoffAssembler::PrepareStackFrame: the placeholder, and its offset.
PrepareStackFrame(buf) ==
  [offset |-> pc_offset(buf),
   code |-> buf \o <<Ins("addi", sp, sp, no_reg, 0), Nop, Nop>>]

\* The patching assembler writes seq over the buffer from byte offset on.
Overwrite(buf, offset, seq) ==
  [k \in 1..Len(buf) |->
     IF k - (IndexOf(offset) - 1) \in 1..Len(seq)
     THEN seq[k - (IndexOf(offset) - 1)] ELSE buf[k]]

\* A faulty variant of IsSmallFrame: the threshold off by one.
IsSmallFrameInclusive(frame_size) == frame_size <= 4 * KB

\* if (V8_LIKELY(frame_size < 4 * KB))
IsSmallFrame(frame_size) == frame_size < 4 * KB

\* A faulty variant of StackCheckBranch: the comparison with its operands swapped.
StackCheckBranchSwapped(stack_limit, target) ==
  Ins("bgeu", no_reg, stack_limit, sp, target)

\* Branch(&continuation, uge, sp, Operand(stack_limit))
StackCheckBranch(stack_limit, target) ==
  Ins("bgeu", no_reg, sp, stack_limit, target)

\* A faulty variant of FuncStartOffset: the jump back lands on the placeholder
\* itself.
FuncStartOffsetAtPlaceholder(offset) == offset

\* int func_start_offset = offset + 2 * kInstrSize
FuncStartOffset(offset) == offset + 2 * kInstrSize

\* The out-of-line code of a large frame, emitted at the end of the buffer
\* (at index first).
LargeFrameCode(first, offset, frame_size, stack_size, debug_code) ==
  LET stack_limit == kScratchReg
      check == IF frame_size < stack_size * 1024
               THEN <<Ins("lw", stack_limit, kWasmInstanceRegister, no_reg,
                          kRealStackLimitAddressOffset - kHeapObjectTag),
                      Ins("lw", stack_limit, stack_limit, no_reg, 0)>>
                    \o AddImm(stack_limit, stack_limit, frame_size)
               ELSE <<>>
      call == <<Ins("call_WasmStackOverflow", no_reg, no_reg, no_reg, 0)>>
              \o (IF debug_code THEN <<Ins("stop", no_reg, no_reg, no_reg, 0)>>
                  ELSE <<>>)
      branchLen == IF frame_size < stack_size * 1024 THEN 1 ELSE 0
      continuation == first + Len(check) + branchLen + Len(call)
      alloc == AddImm(sp, sp, -frame_size)
      jumpAt == kInstrSize * (continuation + Len(alloc) - 1)
  IN  check
      \o (IF frame_size < stack_size * 1024
          THEN <<StackCheckBranch(stack_limit, continuation)>> ELSE <<>>)
      \o call
      \o alloc
      \o GenPCRelativeJump(kScratchReg, FuncStartOffset(offset) - jumpAt)

\* LiftoffAssembler::PatchPrepareStackFrame(offset, ...), with
\* frame_size = GetTotalFrameSize() - 2 * kSystemPointerSize.
PatchPrepareStackFrame(buf, offset, frame_size, stack_size, debug_code) ==
  IF IsSmallFrame(frame_size)
  THEN Overwrite(buf, offset, AddImm(sp, sp, -frame_size))
  ELSE Overwrite(buf, offset,
                 GenPCRelativeJump(kScratchReg, pc_offset(buf) - offset))
       \o LargeFrameCode(Len(buf) + 1, offset, frame_size, stack_size,
                         debug_code)

----------------------------------------------------------------------------
(* A hart entering the function: it runs the prologue until it reaches the *)
(* first instruction of the body or the stack-overflow stub.               *)

FrameRegs == {sp, kScratchReg, kWasmInstanceRegister, zero_reg} \cup ScratchRegs

\* The instance object (a tagged pointer), its field holding the address of
\* the real stack limit, and the cell holding the limit.
InstancePtr == W(2, 1)
LimitCell == W(3, 0)
FrameMem(limit) ==
  [a \in {Add32(InstancePtr, FromInt(kRealStackLimitAddressOffset - kHeapObjectTag)),
          LimitCell} |->
     IF a = LimitCell THEN limit ELSE LimitCell]

\* One prologue instruction at index pc: the new program counter and
\* register file.
FrameExec(i, pc, r, mem) ==
  CASE i.op \in AluOps -> [pc |-> pc + 1, r |-> ExecAlu(i, r)]
    [] i.op = "auipc" ->
         [pc |-> pc + 1,
          r |-> SetReg(r, i.rd, FromInt(kInstrSize * (pc - 1) + i.imm))]
    [] i.op = "jr" -> [pc |-> IndexOf(ToInt(r[i.rs1])), r |-> r]
    [] i.op = "lw" ->
         [pc |-> pc + 1,
          r |-> SetReg(r, i.rd, mem[Add32(r[i.rs1], FromInt(i.imm))])]
    [] i.op = "bgeu" ->
         [pc |-> IF Uge32(r[i.rs1], r[i.rs2]) THEN i.imm ELSE pc + 1, r |-> r]
    [] OTHER -> [pc |-> pc + 1, r |-> r]       \* nop, frame setup

\* Bounds of the scenario: instructions before the placeholder, and body
\* instructions after it.
MaxPre == 1
MaxBody == 2

FrameSizes == {0, 8, 2047, 2048, 4095, 4096, 8192, 1000000, 1007616, 1007624}
\* FLAG_stack_size, in KB (984 is the default).
FlagStackSizes == {8, 984}
LimitValues == {W(0, 4096), W(16, 0), W(65520, 0), W(65535, 61440)}
\* Distance of the stack pointer above the limit on entry.
Headrooms == {0, 2048, 4096, 8191, 8192, 8193, 1000000, 1007616, 2000000}

\* limit + n as a mathematical sum: whether it passes 2^32.
Overflows32(w, n) ==
  LET v == FromInt(n)
      lo == w[2] + v[2]
  IN  w[1] + v[1] + (lo \div Half) >= Half

InitFrame ==
  /\ fcode = <<>>
  /\ fphase = "start"
  /\ fargs = [offset |-> 0, ool |-> 0, frame_size |-> 0, stack_size |-> 0,
              sp0 |-> Zero32, limit |-> Zero32]
  /\ fpc = 0
  /\ freg = [x \in FrameRegs |-> Zero32]
  /\ fdec = 0
  /\ OthersIdle("frame")

\* The prologue up to and including the placeholder.
FPrepare ==
  /\ fphase = "start"
  /\ \E pre \in 0..MaxPre :
       LET p == PrepareStackFrame(
                  [k \in 1..pre |-> Ins("frame_setup", no_reg, no_reg, no_reg, 0)])
       IN  /\ fcode' = p.code
           /\ fargs' = [fargs EXCEPT !.offset = p.offset]
  /\ fphase' = "prepared"
  /\ UNCHANGED <<fpc, freg, fdec>>
  /\ OthersUnchanged("frame")

\* The function body is lowered after the placeholder.
FEmitBody ==
  /\ fphase = "prepared"
  /\ Len(fcode) < IndexOf(fargs.offset) + 2 + MaxBody
  /\ fcode' = Append(fcode, Ins("body", no_reg, no_reg, no_reg, 0))
  /\ UNCHANGED <<fphase, fargs, fpc, freg, fdec>>
  /\ OthersUnchanged("frame")

\* The whole body has been lowered and the frame size is known.
FPatch ==
  /\ fphase = "prepared"
  /\ Len(fcode) > IndexOf(fargs.offset) + 2
  /\ \E frame_size \in FrameSizes, stack_size \in FlagStackSizes,
        debug_code \in BOOLEAN :
       /\ fcode' = PatchPrepareStackFrame(fcode, fargs.offset, frame_size,
                                          stack_size, debug_code)
       /\ fargs' = [fargs EXCEPT !.frame_size = frame_size,
                                 !.stack_size = stack_size,
                                 !.ool = pc_offset(fcode)]
  /\ fphase' = "patched"
  /\ UNCHANGED <<fpc, freg, fdec>>
  /\ OthersUnchanged("frame")

\* A call of the function: some stack limit, and a stack pointer above it.
FEnter ==
  /\ fphase = "patched"
  /\ \E limit \in LimitValues, room \in Headrooms :
       /\ ~Overflows32(limit, room)
       /\ fargs' = [fargs EXCEPT !.limit = limit,
                                 !.sp0 = Add32(limit, FromInt(room))]
       /\ freg' = [x \in FrameRegs |->
                     CASE x = sp -> Add32(limit, FromInt(room))
                       [] x = kWasmInstanceRegister -> InstancePtr
                       [] OTHER -> Zero32]
  /\ fpc' = 1
  /\ fphase' = "running"
  /\ UNCHANGED <<fcode, fdec>>
  /\ OthersUnchanged("frame")

\* The hart executes one instruction of the prologue.
FStep ==
  /\ fphase = "running"
  /\ fpc \in 1..Len(fcode)
  /\ LET i == fcode[fpc]
         n == FrameExec(i, fpc, freg, FrameMem(fargs.limit))
     IN  IF i.op = "body"
         THEN fphase' = "body" /\ UNCHANGED <<fpc, freg, fdec>>
         ELSE IF i.op = "call_WasmStackOverflow"
         THEN fphase' = "overflow" /\ UNCHANGED <<fpc, freg, fdec>>
         ELSE /\ fpc' = n.pc
              /\ freg' = n.r
              /\ fdec' = fdec + (IF n.r[sp] # freg[sp] THEN 1 ELSE 0)
              /\ UNCHANGED fphase
  /\ UNCHANGED <<fcode, fargs>>
  /\ OthersUnchanged("frame")

NextFrame == FPrepare \/ FEmitBody \/ FPatch \/ FEnter \/ FStep

SpecFrame == InitFrame /\ [][NextFrame]_vars

----------------------------------------------------------------------------
(* Properties of the patched prologue.                                     *)

FramePatched == fphase \in {"patched", "running", "body", "overflow"}
LargeFrame == fargs.frame_size >= 4096
\* The three reserved slots, as they are in the buffer now.
Placeholder == SubSeq(fcode, IndexOf(fargs.offset), IndexOf(fargs.offset) + 2)
\* The index of the first out-of-line instruction, and of the first body
\* instruction.
OolIndex == IndexOf(fargs.ool)
BodyIndex == IndexOf(fargs.offset) + 3
IsSpAdd(i) == i.op = "addi" /\ i.rd = sp /\ i.rs1 = sp
RECURSIVE SumImm(_)
SumImm(seq) ==
  IF seq = <<>> THEN 0
  ELSE (IF IsSpAdd(Head(seq)) THEN Head(seq).imm ELSE 0) + SumImm(Tail(seq))

\* C4: the placeholder is patched to only a direct decrement of sp by
\* frame_size when frame_size < 4096 (nothing is emitted out of line), and
\* to a jump to the out-of-line stack check when frame_size >= 4096.
C4_PatchBySize ==
  FramePatched =>
    IF fargs.frame_size < 4096
    THEN /\ Len(fcode) = OolIndex - 1
         /\ \A k \in 1..3 : IsSpAdd(Placeholder[k]) \/ Placeholder[k] = Nop
         /\ SumImm(Placeholder) = 0 - fargs.frame_size
    ELSE /\ Placeholder[1].op = "auipc"
         /\ Placeholder[2] = Ins("jr", no_reg, Placeholder[1].rd, no_reg, 0)
         /\ IndexOf(fargs.offset + Placeholder[1].imm) = OolIndex
         /\ OolIndex <= Len(fcode)
         /\ \E k \in OolIndex..Len(fcode) :
              fcode[k].op = "call_WasmStackOverflow"

\* A frame of exactly 4096 bytes has been patched to a jump.
C4_Witness ==
  /\ FramePatched
  /\ fargs.frame_size = 4096
  /\ Placeholder[1].op = "auipc"

\* The stack limit is closer to sp than frame_size bytes, as integers:
\* sp - frame_size < limit, that is sp < limit + frame_size.
LimitCloserThanFrame ==
  \/ Overflows32(fargs.limit, fargs.frame_size)
  \/ Ult32(fargs.sp0, Add32(fargs.limit, FromInt(fargs.frame_size)))
FrameExceedsStack == fargs.frame_size >= fargs.stack_size * 1024
FrameDecided == LargeFrame /\ fphase \in {"body", "overflow"}

\* C5 as stated: for all 32-bit sp, limit and frame_size, wrapping sums
\* included, the handler is reached exactly when sp - frame_size < limit,
\* and unconditionally when the frame is at least the stack size.
C5_AllValues ==
  FrameDecided =>
    (fphase = "overflow" <=> (FrameExceedsStack \/ LimitCloserThanFrame))

\* C5, amended: the same, for the values where limit + frame_size does not
\* pass 2^32 (the emitted comparison is sp >= (limit + frame_size) mod 2^32).
C5_NoWrap ==
  FrameDecided =>
    IF FrameExceedsStack THEN fphase = "overflow"
    ELSE ~Overflows32(fargs.limit, fargs.frame_size) =>
           (fphase = "overflow" <=> LimitCloserThanFrame)

\* The comparison sent a call to the handler: the frame is smaller than the
\* stack, sp is above the limit, and the limit is closer than the frame.
C5_Witness ==
  /\ FrameDecided
  /\ fphase = "overflow"
  /\ ~FrameExceedsStack
  /\ ~Overflows32(fargs.limit, fargs.frame_size)
  /\ Ult32(fargs.limit, fargs.sp0)

\* The number of instructions of one frame allocation that write sp.
AllocWrites ==
  Cardinality({k \in 1..Len(AddImm(sp, sp, 0 - fargs.frame_size)) :
                 AddImm(sp, sp, 0 - fargs.frame_size)[k].rd = sp})
Allocated == freg[sp] = Sub32(fargs.sp0, FromInt(fargs.frame_size))

\* C6: on the fall-through path of a large frame the allocation runs once
\* and takes exactly frame_size from sp; control comes back just after the
\* patched jump; the slot left there is a nop, and the first instruction
\* reached after it is the first body instruction.
C6_AllocateOnce ==
  (LargeFrame /\ fphase \in {"running", "body"}) =>
    /\ fdec <= AllocWrites
    /\ Placeholder[3] = Nop
    /\ (fpc < OolIndex /\ fpc > IndexOf(fargs.offset) + 1) =>
         (fdec = AllocWrites /\ Allocated)
    /\ fpc < OolIndex => fpc <= BodyIndex
    /\ fphase = "body" => (fpc = BodyIndex /\ fdec = AllocWrites /\ Allocated)

\* A frame of a million bytes was allocated out of line and the hart is at
\* the first body instruction.
C6_Witness ==
  /\ fphase = "body"
  /\ fargs.frame_size = 1000000
  /\ fpc = BodyIndex
  /\ Allocated
  /\ fargs.sp0 # freg[sp]

----------------------------------------------------------------------------
(* A hart with scalar, float and vector registers and a byte-addressed     *)
(* stack, for the straight-line lowerings.  Float registers are 64 bits    *)
(* (8 bytes, least significant first), vector registers 128 bits.          *)

FpCacheRegs == {"fa0", "fa1", "fa2"}
v0 == "v0"
kSimd128ScratchReg == "v24"
MachGpRegs == CacheRegs \cup ScratchRegs \cup {kScratchReg, kScratchReg2, sp, fp, zero_reg}
VRegs == FpCacheRegs \cup {v0, kSimd128ScratchReg}

\* A word as its four bytes, least significant first, and back.
WordBytes(w) == <<w[2] % 256, w[2] \div 256, w[1] % 256, w[1] \div 256>>
BytesWord(b) == W(b[3] + 256 * b[4], b[1] + 256 * b[2])
Rep(n, x) == [k \in 1..n |-> x]
\* Bytes widened to n bytes with the sign of the top byte, or cut to n.
SignExtend(b, n) ==
  [k \in 1..n |-> IF k <= Len(b) THEN b[k]
                  ELSE IF b[Len(b)] >= 128 THEN 255 ELSE 0]

LoadBytes(mem, a, n) == [k \in 1..n |-> mem[a + k - 1]]
StoreBytes(mem, a, b) ==
  [x \in DOMAIN mem |-> IF x - a \in 0..(Len(b) - 1) THEN b[x - a + 1] ELSE mem[x]]
Mapped(mem, a, n) == \A k \in 0..(n - 1) : a + k \in DOMAIN mem

\* The bytes of a vector register that a vector load or store of element
\* width eew moves when the unit is configured for sew: vl elements.
VlBytes(sew, eew) ==
  IF (128 \div sew) * (eew \div 8) > 16 THEN 16 ELSE (128 \div sew) * (eew \div 8)

MachMemOps == {"sw", "lw", "fsw", "flw", "fsd", "fld", "vs", "vl"}

\* A memory instruction on state st.
MachExecMem(i, st) ==
  LET a == ToInt(Add32(st.gp[i.rs1], FromInt(i.imm)))
      va == ToInt(st.gp[i.rs1])
      nv == VlBytes(st.sew, i.imm)
      trap == [st EXCEPT !.trap = TRUE]
  IN  CASE i.op = "sw" ->
             IF ~Mapped(st.mem, a, 4) THEN trap
             ELSE [st EXCEPT !.mem = StoreBytes(@, a, WordBytes(st.gp[i.rs2]))]
        [] i.op = "lw" ->
             IF ~Mapped(st.mem, a, 4) THEN trap
             ELSE [st EXCEPT !.gp = SetReg(@, i.rd, BytesWord(LoadBytes(st.mem, a, 4)))]
        [] i.op = "fsw" ->
             IF ~Mapped(st.mem, a, 4) THEN trap
             ELSE [st EXCEPT !.mem = StoreBytes(@, a, SubSeq(st.fr[i.rs2], 1, 4))]
        [] i.op = "flw" ->      \* the single is NaN-boxed in the 64-bit register
             IF ~Mapped(st.mem, a, 4) THEN trap
             ELSE [st EXCEPT !.fr[i.rd] = LoadBytes(st.mem, a, 4) \o Rep(4, 255)]
        [] i.op = "fsd" ->
             IF ~Mapped(st.mem, a, 8) THEN trap
             ELSE [st EXCEPT !.mem = StoreBytes(@, a, st.fr[i.rs2])]
        [] i.op = "fld" ->
             IF ~Mapped(st.mem, a, 8) THEN trap
             ELSE [st EXCEPT !.fr[i.rd] = LoadBytes(st.mem, a, 8)]
        [] i.op = "vs" ->
             IF ~Mapped(st.mem, va, nv) THEN trap
             ELSE [st EXCEPT !.mem = StoreBytes(@, va, SubSeq(st.vr[i.rs2], 1, nv))]
        [] i.op = "vl" ->
             IF ~Mapped(st.mem, va, nv) THEN trap
             ELSE [st EXCEPT !.vr[i.rd] =
                     LoadBytes(st.mem, va, nv) \o SubSeq(@, nv + 1, 16)]

\* Logical shifts of a word by n in 0..31.
Sll32(w, n) ==
  IF n >= 16 THEN W((w[2] * 2^(n - 16)) % Half, 0)
  ELSE W((w[1] * 2^n + (w[2] * 2^n) \div Half) % Half, (w[2] * 2^n) % Half)
Srl32(w, n) ==
  IF n >= 16 THEN W(0, w[1] \div 2^(n - 16))
  ELSE W(w[1] \div 2^n, w[2] \div 2^n + (w[1] % 2^n) * 2^(16 - n))
\* Arithmetic shift right of a word by n in 0..31: the sign bit fills in.
Sra32(w, n) ==
  IF w[1] >= Half \div 2
  THEN Xor32(W(Half - 1, Half - 1), Srl32(Xor32(W(Half - 1, Half - 1), w), n))
  ELSE Srl32(w, n)

\* Vector elements: element k (from 0) of register contents v at width sew.
Elem(v, sew, k) == SubSeq(v, k * (sew \div 8) + 1, (k + 1) * (sew \div 8))
SetElems(sew, F(_)) ==
  [j \in 1..16 |-> F((j - 1) \div (sew \div 8))[((j - 1) % (sew \div 8)) + 1]]
\* A scalar register as an element: cut to sew bits or sign-extended.
XElem(w, sew) == SignExtend(WordBytes(w), sew \div 8)
MaskBit(v, k) == (v[(k \div 8) + 1] \div 2^(k % 8)) % 2

\* Floating-point elements as bit patterns (IEEE 754 single or double).
FIsNaN(b) ==
  IF Len(b) = 4
  THEN /\ (b[4] % 128) * 2 + b[3] \div 128 = 255
       /\ (b[3] % 128 # 0 \/ b[2] # 0 \/ b[1] # 0)
  ELSE /\ (b[8] % 128) * 16 + b[7] \div 16 = 2047
       /\ (b[7] % 16 # 0 \/ \E k \in 1..6 : b[k] # 0)
FNeg(b) == b[Len(b)] >= 128
FMag(b) == [b EXCEPT ![Len(b)] = @ % 128]
RECURSIVE MagLess(_, _, _)
MagLess(a, b, k) ==
  IF k = 0 THEN FALSE
  ELSE IF a[k] # b[k] THEN a[k] < b[k] ELSE MagLess(a, b, k - 1)
\* a < b for two numbers; -0 is ordered below +0 as fmin/fmax require.
FLess(a, b) ==
  IF FNeg(a) # FNeg(b) THEN FNeg(a)
  ELSE IF FNeg(a) THEN MagLess(FMag(b), FMag(a), Len(a))
  ELSE MagLess(FMag(a), FMag(b), Len(a))
FIsZero(b) == \A k \in 1..Len(b) : FMag(b)[k] = 0
FEq(a, b) == ~FIsNaN(a) /\ ~FIsNaN(b) /\ (a = b \/ (FIsZero(a) /\ FIsZero(b)))
CanonicalNaN(n) == IF n = 4 THEN <<0, 0, 192, 127>> ELSE <<0, 0, 0, 0, 0, 0, 248, 127>>
\* fmin / fmax: a NaN operand yields the other operand.
FMinMax(op, a, b) ==
  IF FIsNaN(a) /\ FIsNaN(b) THEN CanonicalNaN(Len(a))
  ELSE IF FIsNaN(a) THEN b
  ELSE IF FIsNaN(b) THEN a
  ELSE IF op = "min" THEN (IF FLess(b, a) THEN b ELSE a)
  ELSE (IF FLess(a, b) THEN b ELSE a)

\* The mask a vector compare writes: one bit per element, the bits past
\* the last element keep their value.
CompareMask(old, sew, B(_)) ==
  LET n == 128 \div sew
      bits == [k \in 0..(n - 1) |-> IF B(k) THEN 1 ELSE 0]
      Byte(j) ==
        LET Bit(q) == IF 8 * (j - 1) + q < n THEN bits[8 * (j - 1) + q]
                      ELSE (old[j] \div 2^q) % 2
        IN  Bit(0) + 2 * Bit(1) + 4 * Bit(2) + 8 * Bit(3) + 16 * Bit(4)
            + 32 * Bit(5) + 64 * Bit(6) + 128 * Bit(7)
  IN  [j \in 1..16 |-> Byte(j)]

MachVecOps == {"vsetvli", "vslidedown_vi", "vmv_xs", "vfmv_fs", "vmv_sx",
               "vmerge_vx", "vmfeq_vv", "vand_vv", "vmv_vx", "vfmin_vv_m",
               "vfmax_vv_m", "vmv_vv"}

\* A vector instruction on state st (tail and masked-off elements are
\* left undisturbed, as VU.set configures).
MachExecVec(i, st) ==
  LET sew == st.sew
      n == sew \div 8
      vr == st.vr
  IN  CASE i.op = "vsetvli" ->
             [st EXCEPT !.sew = i.imm,
                        !.gp = SetReg(@, i.rd, FromInt(128 \div i.imm))]
        [] i.op = "vslidedown_vi" ->
             [st EXCEPT !.vr[i.rd] =
                SetElems(sew, LAMBDA k : IF k + i.imm < 128 \div sew
                                         THEN Elem(vr[i.rs2], sew, k + i.imm)
                                         ELSE Rep(n, 0))]
        [] i.op = "vmv_xs" ->
             [st EXCEPT !.gp = SetReg(@, i.rd,
                BytesWord(SignExtend(Elem(vr[i.rs2], sew, 0), 4)))]
        [] i.op = "vfmv_fs" ->
             [st EXCEPT !.fr[i.rd] =
                IF n >= 8 THEN Elem(vr[i.rs2], sew, 0)
                ELSE Elem(vr[i.rs2], sew, 0) \o Rep(8 - n, 255)]
        [] i.op = "vmv_sx" ->
             [st EXCEPT !.vr[i.rd] =
                XElem(st.gp[i.rs1], sew) \o SubSeq(@, n + 1, 16)]
        [] i.op = "vmerge_vx" ->
             [st EXCEPT !.vr[i.rd] =
                SetElems(sew, LAMBDA k : IF MaskBit(vr[v0], k) = 1
                                         THEN XElem(st.gp[i.rs1], sew)
                                         ELSE Elem(vr[i.rs2], sew, k))]
        [] i.op = "vmfeq_vv" ->
             [st EXCEPT !.vr[i.rd] =
                CompareMask(@, sew, LAMBDA k : FEq(Elem(vr[i.rs2], sew, k),
                                                   Elem(vr[i.rs1], sew, k)))]
        [] i.op = "vand_vv" ->
             [st EXCEPT !.vr[i.rd] =
                [j \in 1..16 |-> BitOp16("and", vr[i.rs2][j], vr[i.rs1][j], 8)]]
        [] i.op = "vmv_vx" ->
             [st EXCEPT !.vr[i.rd] =
                SetElems(sew, LAMBDA k : XElem(st.gp[i.rs1], sew))]
        [] i.op \in {"vfmin_vv_m", "vfmax_vv_m"} ->
             [st EXCEPT !.vr[i.rd] =
                SetElems(sew, LAMBDA k :
                  IF MaskBit(vr[v0], k) = 1
                  THEN FMinMax(IF i.op = "vfmin_vv_m" THEN "min" ELSE "max",
                               Elem(vr[i.rs2], sew, k), Elem(vr[i.rs1], sew, k))
                  ELSE Elem(vr[i.rd], sew, k))]
        [] i.op = "vmv_vv" ->
             [st EXCEPT !.vr[i.rd] = vr[i.rs1]]

\* Signed comparison of two words.
Slt32(a, b) == Ult32(W((a[1] + 2^15) % Half, a[2]), W((b[1] + 2^15) % Half, b[2]))

\* The macro-assembler's conditions on two words.
Holds32(cond, a, b) ==
  CASE cond = "eq" -> a = b
    [] cond = "ne" -> a # b
    [] cond = "lt" -> Slt32(a, b)
    [] cond = "le" -> ~Slt32(b, a)
    [] cond = "gt" -> Slt32(b, a)
    [] cond = "ge" -> ~Slt32(a, b)
    [] cond = "ult" -> Ult32(a, b)
    [] cond = "ule" -> ~Ult32(b, a)
    [] cond = "ugt" -> Ult32(b, a)
    [] cond = "uge" -> ~Ult32(a, b)
Conditions == {"eq", "ne", "lt", "le", "gt", "ge", "ult", "ule", "ugt", "uge"}

\* Bit k of a word, and of a 64-bit value <<low word, high word>>.
BitOf(w, k) == IF k < 16 THEN (w[2] \div 2^k) % 2 ELSE (w[1] \div 2^(k - 16)) % 2
Bit64(v, k) == IF k < 32 THEN BitOf(v[1], k) ELSE BitOf(v[2], k - 32)
HalfFromBits(B(_), base) ==
  LET f[j \in 0..16] == IF j = 16 THEN 0 ELSE B(base + j) + 2 * f[j + 1]
  IN f[0]
Make64(B(_)) ==
  <<W(HalfFromBits(B, 16), HalfFromBits(B, 0)),
    W(HalfFromBits(B, 48), HalfFromBits(B, 32))>>

\* The wasm i64 shifts: the amount is taken modulo 64.
Shift64(shift, v, amount) ==
  LET n == amount[2] % 64
      Shl(k) == IF k >= n THEN Bit64(v, k - n) ELSE 0
      Shr(k) == IF k + n <= 63 THEN Bit64(v, k + n) ELSE 0
      Sar(k) == IF k + n <= 63 THEN Bit64(v, k + n) ELSE Bit64(v, 63)
  IN CASE shift = "ShlPair" -> Make64(Shl)
       [] shift = "SarPair" -> Make64(Sar)
       [] shift = "ShrPair" -> Make64(Shr)

\* Scalar instructions beyond the plain ALU ones.  "CompareI" stands for the
\* sequence TurboAssembler::CompareI expands to; its condition is in imm.
\* "PairLow" / "PairHigh" are the two writes of a pair shift: each reads the
\* source pair (rs1, rs2) and the amount register named in imm at the moment
\* it executes.
MachScalarOps == {"sltiu", "CompareI", "PairLow", "PairHigh"}
MachExecScalar(i, st) ==
  CASE i.op = "sltiu" ->
         [st EXCEPT !.gp = SetReg(@, i.rd,
            IF Ult32(st.gp[i.rs1], FromInt(i.imm)) THEN One32 ELSE Zero32)]
    [] i.op = "CompareI" ->
         [st EXCEPT !.gp = SetReg(@, i.rd,
            IF Holds32(i.imm, st.gp[i.rs1], st.gp[i.rs2]) THEN One32 ELSE Zero32)]
    [] i.op \in {"PairLow", "PairHigh"} ->
         [st EXCEPT !.gp = SetReg(@, i.rd,
            Shift64(i.imm.shift, <<st.gp[i.rs1], st.gp[i.rs2]>>,
                    st.gp[i.imm.shamt])[IF i.op = "PairLow" THEN 1 ELSE 2])]

\* Instructions whose effect on RV32 depends on the build: a shift amount
\* above 31 and the RV64-only fmv.x.d either raise an illegal-instruction
\* trap (outcome 0) or act on the low 32 bits (outcome 1).
Outcomes(i) ==
  IF (i.op \in {"slli", "srli"} /\ i.imm > 31) \/ i.op \in {"fmv_x_d", "jalr"}
  THEN {0, 1} ELSE {0}

\* jalr rs1 to a C function and the function's run up to its return, as one
\* step: the function sees the argument registers and sp, keeps sp, the
\* callee-saved registers and the stack at and above sp, and may (ch = 1)
\* overwrite the caller-saved registers and the stack below sp.  jr rs1
\* leaves the code for the address in rs1.
ReturnAddress == W(1, 0)
Garbage == W(Half - 1, 60875)
CallerSaved == {"ra", "a0", "a1", "a2", "a3", "a4", "t3", "t5"}
MachCall(i, st, ch) ==
  LET seen == [callee |-> st.gp[i.rs1], a0 |-> st.gp["a0"], a1 |-> st.gp["a1"],
               a2 |-> st.gp["a2"], sp |-> st.gp["sp"], mem |-> st.mem]
      linked == [st EXCEPT !.gp = SetReg(@, "ra", ReturnAddress), !.call = seen]
  IN  IF ch = 0 THEN linked
      ELSE [linked EXCEPT
              !.gp = [r \in DOMAIN st.gp |-> IF r \in CallerSaved THEN Garbage ELSE st.gp[r]],
              !.mem = [a \in DOMAIN st.mem |-> IF a < st.gp["sp"][2] THEN 0 ELSE st.mem[a]]]

\* One instruction on state st, with outcome ch of Outcomes(i).
MachExec(i, st, ch) ==
  CASE i.op \in AluOps -> [st EXCEPT !.gp = ExecAlu(i, st.gp)]
    [] i.op \in MachMemOps -> MachExecMem(i, st)
    [] i.op \in MachVecOps -> MachExecVec(i, st)
    [] i.op \in MachScalarOps -> MachExecScalar(i, st)
    [] i.op = "jalr" -> MachCall(i, st, ch)
    [] i.op = "jr" -> [st EXCEPT !.ret = st.gp[i.rs1]]
    [] i.op \in {"slli", "srli"} ->
         IF i.imm > 31 /\ ch = 0 THEN [st EXCEPT !.trap = TRUE]
         ELSE [st EXCEPT !.gp = SetReg(@, i.rd,
                 IF i.op = "slli" THEN Sll32(st.gp[i.rs1], i.imm % 32)
                 ELSE Srl32(st.gp[i.rs1], i.imm % 32))]
    [] i.op = "srai" ->
         [st EXCEPT !.gp = SetReg(@, i.rd, Sra32(st.gp[i.rs1], i.imm % 32))]
    [] i.op = "fmv_d" -> [st EXCEPT !.fr[i.rd] = st.fr[i.rs1]]
    [] i.op = "fmv_x_w" ->
         [st EXCEPT !.gp = SetReg(@, i.rd, BytesWord(SubSeq(st.fr[i.rs1], 1, 4)))]
    [] i.op = "fmv_x_d" ->
         IF ch = 0 THEN [st EXCEPT !.trap = TRUE]
         ELSE [st EXCEPT !.gp = SetReg(@, i.rd, BytesWord(SubSeq(st.fr[i.rs1], 1, 4)))]
    [] OTHER -> [st EXCEPT !.trap = TRUE]

----------------------------------------------------------------------------
(* Stack slots: Spill and Fill.                                            *)

\* LiftoffRegister: a gp register, a pair of gp registers (an i64 on this
\* 32-bit target) or an fp register.
GpReg(r) == [cls |-> "gp", gp |-> r, low |-> no_reg, high |-> no_reg, fp |-> no_reg]
PairReg(l, h) == [cls |-> "pair", gp |-> no_reg, low |-> l, high |-> h, fp |-> no_reg]
FpReg(f) == [cls |-> "fp", gp |-> no_reg, low |-> no_reg, high |-> no_reg, fp |-> f]

ValueKinds == {"kI32", "kI64", "kF32", "kF64", "kS128", "kRef", "kOptRef", "kRtt"}
kStackSlotSize == 8

MemOperand(rm, offset) == [rm |-> rm, offset |-> offset]
GetStackSlot(offset) == MemOperand(fp, 0 - offset)
GetHalfStackSlot(offset, half) ==
  LET half_offset == IF half = "kLowWord" THEN 0 ELSE kStackSlotSize \div 2
  IN  MemOperand(IF offset > 0 THEN fp ELSE sp, 0 - offset + half_offset)

\* The macro-assembler's loads and stores, for offsets that fit 12 bits.
Sw(rs, m) == Ins("sw", no_reg, m.rm, rs, m.offset)
Lw(rd, m) == Ins("lw", rd, m.rm, no_reg, m.offset)
StoreFloat(fs, m) == Ins("fsw", no_reg, m.rm, fs, m.offset)
LoadFloat(fd, m) == Ins("flw", fd, m.rm, no_reg, m.offset)
StoreDouble(fs, m) == Ins("fsd", no_reg, m.rm, fs, m.offset)
LoadDouble(fd, m) == Ins("fld", fd, m.rm, no_reg, m.offset)
\* VU.set(rd, sew, m1)
VUset(rd, sew) == Ins("vsetvli", rd, zero_reg, no_reg, sew)

\* UNREACHABLE(): the compiler stops with a fatal error.
Unreachable == <<Ins("UNREACHABLE", no_reg, no_reg, no_reg, 0)>>

\* LiftoffAssembler::Spill(offset, reg, kind)
Spill(offset, reg, kind) ==
  LET dst == GetStackSlot(offset)
      dst_reg == IF dst.offset = 0 THEN dst.rm ELSE kScratchReg
  IN  CASE kind \in {"kI32", "kRef", "kOptRef", "kRtt"} -> <<Sw(reg.gp, dst)>>
        [] kind = "kI64" ->
             <<Sw(reg.low, GetHalfStackSlot(offset, "kLowWord")),
               Sw(reg.high, GetHalfStackSlot(offset, "kHighWord"))>>
        [] kind = "kF32" -> <<StoreFloat(reg.fp, dst)>>
        [] kind = "kF64" -> <<StoreDouble(reg.fp, dst)>>
        [] kind = "kS128" ->
             <<VUset(kScratchReg, 8)>>
             \o (IF dst.offset # 0 THEN AddImm(kScratchReg, dst.rm, dst.offset)
                 ELSE <<>>)
             \o <<Ins("vs", no_reg, dst_reg, reg.fp, 8)>>
        [] OTHER -> Unreachable

\* LiftoffAssembler::Fill(reg, offset, kind)
Fill(reg, offset, kind) ==
  LET src == GetStackSlot(offset)
      src_reg == IF src.offset = 0 THEN src.rm ELSE kScratchReg
  IN  CASE kind \in {"kI32", "kRef", "kOptRef"} -> <<Lw(reg.gp, src)>>
        [] kind = "kI64" ->
             <<Lw(reg.low, GetHalfStackSlot(offset, "kLowWord")),
               Lw(reg.high, GetHalfStackSlot(offset, "kHighWord"))>>
        [] kind = "kF32" -> <<LoadFloat(reg.fp, src)>>
        [] kind = "kF64" -> <<LoadDouble(reg.fp, src)>>
        [] kind = "kS128" ->
             <<VUset(kScratchReg, 8)>>
             \o (IF src.offset # 0 THEN AddImm(src_reg, src.rm, src.offset)
                 ELSE <<>>)
             \o <<Ins("vl", reg.fp, src_reg, no_reg, 8)>>
        [] OTHER -> Unreachable

\* The value of the given kind that a register holds.
RegValue(kind, reg, st) ==
  CASE kind = "kI64" -> <<st.gp[reg.low], st.gp[reg.high]>>
    [] kind = "kF32" -> SubSeq(st.fr[reg.fp], 1, 4)
    [] kind = "kF64" -> st.fr[reg.fp]
    [] kind = "kS128" -> st.vr[reg.fp]
    [] OTHER -> st.gp[reg.gp]

\* Registers a value of the kind can live in.
SpillGpRegs == {"a0", "a1", "a2"}
SpillFpRegs == {"fa0", "fa1"}
RegsFor(kind) ==
  CASE kind = "kI64" ->
         {PairReg(l, h) : l \in SpillGpRegs, h \in SpillGpRegs \ {"a0"}} \
           {PairReg(r, r) : r \in SpillGpRegs}
    [] kind \in {"kF32", "kF64", "kS128"} -> {FpReg(f) : f \in SpillFpRegs}
    [] OTHER -> {GpReg(r) : r \in SpillGpRegs \ {"a2"}}

\* The frame of the running function: fp, and the mapped stack around it.
FramePointer == W(0, 512)
StackPointer == W(0, 384)
StackMem == [a \in 384..527 |-> 170]
SpillOffsets == {24, 32, 112}

\* Register contents on entry: pattern p fills every register with a value
\* of its own (p = 1 sets the top bit of every byte).
MachPatterns == {0, 1}
RegTag(r) ==
  CASE r \in {"a0", "fa0"} -> 1 [] r \in {"a1", "fa1"} -> 2
    [] r \in {"a2", "fa2"} -> 3 [] r = "a3" -> 4 [] r = "a4" -> 5 [] OTHER -> 6
PatternBytes(r, p, n) == [k \in 1..n |-> 128 * p + 16 * RegTag(r) + k - 1]
MachInit(p) ==
  [gp |-> [r \in MachGpRegs |->
             CASE r = fp -> FramePointer
               [] r = sp -> StackPointer
               [] r = zero_reg -> Zero32
               [] OTHER -> BytesWord(PatternBytes(r, p, 4))],
   fr |-> [r \in FpCacheRegs |-> PatternBytes(r, p, 8)],
   vr |-> [r \in VRegs |-> PatternBytes(r, p, 16)],
   mem |-> StackMem,
   sew |-> 8,
   trap |-> FALSE]

\* The hart executes the next instruction of the emitted sequence.
MachStep ==
  /\ mphase = "running"
  /\ mpc <= Len(mcode)
  /\ \E ch \in Outcomes(mcode[mpc]) :
       LET st == MachExec(mcode[mpc], mst, ch)
       IN  /\ mst' = st
           /\ mphase' = IF st.trap THEN "trap" ELSE "running"
  /\ mpc' = mpc + 1
  /\ UNCHANGED <<mcode, margs>>
  /\ OthersUnchanged("mach")

InitSpill ==
  /\ mcode = <<>>
  /\ mphase = "start"
  /\ margs = [kind |-> "kI32", offset |-> 0, reg |-> GpReg("a0"),
              reg2 |-> GpReg("a0"), value |-> <<>>, filled |-> FALSE]
  /\ mpc = 1
  /\ mst \in {MachInit(p) : p \in MachPatterns}
  /\ OthersIdle("mach")

\* Lowering of a spill of some register of some kind to some slot.
SSpill ==
  /\ mphase = "start"
  /\ \E kind \in ValueKinds, offset \in SpillOffsets :
       \E reg \in RegsFor(kind) :
         /\ mcode' = Spill(offset, reg, kind)
         /\ margs' = [margs EXCEPT !.kind = kind, !.offset = offset,
                                   !.reg = reg,
                                   !.value = RegValue(kind, reg, mst)]
  /\ mphase' = "running"
  /\ UNCHANGED <<mpc, mst>>
  /\ OthersUnchanged("mach")

\* Lowering of the fill that follows, from the same slot with the same
\* kind, into some register.
SFill ==
  /\ mphase = "running"
  /\ mpc > Len(mcode)
  /\ ~margs.filled
  /\ \E reg2 \in RegsFor(margs.kind) :
       /\ margs' = [margs EXCEPT !.reg2 = reg2, !.filled = TRUE]
       /\ IF Fill(reg2, margs.offset, margs.kind) = Unreachable
          THEN mphase' = "fatal" /\ UNCHANGED mcode
          ELSE /\ mcode' = mcode \o Fill(reg2, margs.offset, margs.kind)
               /\ UNCHANGED mphase
  /\ UNCHANGED <<mpc, mst>>
  /\ OthersUnchanged("mach")

NextSpill == SSpill \/ MachStep \/ SFill

SpecSpill == InitSpill /\ [][NextSpill]_vars

SpillFillDone == mphase = "running" /\ margs.filled /\ mpc > Len(mcode)

\* C7: a spill followed at once by a fill from the same offset with the
\* same kind completes and leaves in the filled register the value that
\* was spilled, for every ValueKind (RTT included).
C7_SpillFillRoundTrip ==
  /\ mphase \notin {"fatal", "trap"}
  /\ SpillFillDone => RegValue(margs.kind, margs.reg2, mst) = margs.value

----------------------------------------------------------------------------
(* liftoff::EnsureNoAlias.                                                 *)

\* (checks the low half only)
EnsureNoAliasLowOnly(reg, must_not_alias, acquired) ==
  IF reg # must_not_alias.low
  THEN [reg |-> reg, code |-> <<>>]
  ELSE [reg |-> Acquire(acquired + 1),
        code |-> <<Ins("mv", Acquire(acquired + 1), reg, no_reg, 0)>>]

\* EnsureNoAlias(assm, reg, must_not_alias, temps): the register to use and
\* the code emitted.  acquired is the number of registers already taken
\* from the scratch scope.
EnsureNoAlias(reg, must_not_alias, acquired) ==
  IF reg # must_not_alias.low /\ reg # must_not_alias.high
  THEN [reg |-> reg, code |-> <<>>]
  ELSE [reg |-> Acquire(acquired + 1),
        code |-> <<Ins("mv", Acquire(acquired + 1), reg, no_reg, 0)>>]

InitAlias ==
  /\ mcode = <<>>
  /\ mphase = "start"
  /\ margs = [reg |-> no_reg, pair |-> PairReg(no_reg, no_reg),
              ret |-> no_reg, value |-> Zero32]
  /\ mpc = 1
  /\ mst \in {MachInit(p) : p \in MachPatterns}
  /\ OthersIdle("mach")

\* A lowering asks for a register that does not alias a destination pair.
EmitEnsureNoAlias ==
  /\ mphase = "start"
  /\ \E reg \in CacheRegs, low \in CacheRegs, high \in CacheRegs,
        acquired \in {0, 1} :
       /\ low # high
       /\ LET e == EnsureNoAlias(reg, PairReg(low, high), acquired)
          IN  /\ mcode' = e.code
              /\ margs' = [reg |-> reg, pair |-> PairReg(low, high),
                           ret |-> e.reg, value |-> mst.gp[reg]]
  /\ mphase' = "running"
  /\ UNCHANGED <<mpc, mst>>
  /\ OthersUnchanged("mach")

NextAlias == EmitEnsureNoAlias \/ MachStep

SpecAlias == InitAlias /\ [][NextAlias]_vars

Aliases == margs.reg = margs.pair.low \/ margs.reg = margs.pair.high

\* C8: EnsureNoAlias returns reg itself exactly when reg is neither half of
\* the pair; otherwise it returns a register other than reg and than both
\* halves, which holds reg's value once the emitted code has run.
C8_EnsureNoAlias ==
  mphase = "running" =>
    /\ margs.ret = margs.reg <=> ~Aliases
    /\ Aliases => margs.ret \notin {margs.reg, margs.pair.low, margs.pair.high}
    /\ mpc > Len(mcode) => mst.gp[margs.ret] = margs.value

\* reg was the high half of the pair and its copy sits in the temporary.
C8_Witness ==
  /\ mphase = "running"
  /\ mpc > Len(mcode)
  /\ margs.reg = margs.pair.high
  /\ margs.ret # margs.reg
  /\ mst.gp[margs.ret] = margs.value
  /\ mst.gp[margs.ret] = mst.gp[margs.reg]

----------------------------------------------------------------------------
(* Vector lanes: replace_lane and extract_lane.                            *)

\* LiftoffRegister::gp().  On a register that is not a single gp register
\* the DCHECK(is_gp()) fails in a debug build (ub = no_reg) and a release
\* build uses whatever register the pair's code happens to select (ub).
GpOf(reg, ub) == IF reg.cls = "gp" THEN reg.gp ELSE ub

VSlideDown(lhs, imm_lane_idx) ==
  Ins("vslidedown_vi", kSimd128ScratchReg, no_reg, lhs.fp, imm_lane_idx)
VmvXs(rd) == Ins("vmv_xs", rd, no_reg, kSimd128ScratchReg, 0)
VfmvFs(fd) == Ins("vfmv_fs", fd, no_reg, kSimd128ScratchReg, 0)

emit_i8x16_extract_lane_s(dst, lhs, imm_lane_idx, ub) ==
  <<VUset(kScratchReg, 8), VSlideDown(lhs, imm_lane_idx), VmvXs(GpOf(dst, ub))>>
emit_i8x16_extract_lane_u(dst, lhs, imm_lane_idx, ub) ==
  <<VUset(kScratchReg, 8), VSlideDown(lhs, imm_lane_idx), VmvXs(GpOf(dst, ub)),
    Ins("slli", GpOf(dst, ub), GpOf(dst, ub), no_reg, 64 - 8),
    Ins("srli", GpOf(dst, ub), GpOf(dst, ub), no_reg, 64 - 8)>>
emit_i16x8_extract_lane_s(dst, lhs, imm_lane_idx, ub) ==
  <<VUset(kScratchReg, 16), VSlideDown(lhs, imm_lane_idx), VmvXs(GpOf(dst, ub))>>
emit_i16x8_extract_lane_u(dst, lhs, imm_lane_idx, ub) ==
  <<VUset(kScratchReg, 16), VSlideDown(lhs, imm_lane_idx), VmvXs(GpOf(dst, ub)),
    Ins("slli", GpOf(dst, ub), GpOf(dst, ub), no_reg, 64 - 16),
    Ins("srli", GpOf(dst, ub), GpOf(dst, ub), no_reg, 64 - 16)>>
emit_i32x4_extract_lane(dst, lhs, imm_lane_idx, ub) ==
  <<VUset(kScratchReg, 32), VSlideDown(lhs, imm_lane_idx), VmvXs(GpOf(dst, ub))>>
emit_i64x2_extract_lane(dst, lhs, imm_lane_idx, ub) ==
  <<VUset(kScratchReg, 64), VSlideDown(lhs, imm_lane_idx), VmvXs(GpOf(dst, ub))>>
emit_f32x4_extract_lane(dst, lhs, imm_lane_idx, ub) ==
  <<VUset(kScratchReg, 32), VSlideDown(lhs, imm_lane_idx), VfmvFs(dst.fp)>>
emit_f64x2_extract_lane(dst, lhs, imm_lane_idx, ub) ==
  <<VUset(kScratchReg, 64), VSlideDown(lhs, imm_lane_idx), VfmvFs(dst.fp)>>

\* li(kScratchReg, 0x1 << imm_lane_idx); vmv_sx(v0, kScratchReg)
LaneMask(imm_lane_idx) ==
  <<Ins("li", kScratchReg, no_reg, no_reg, 2^imm_lane_idx),
    Ins("vmv_sx", v0, kScratchReg, no_reg, 0)>>
VMerge(dst, rs1, src1) == Ins("vmerge_vx", dst.fp, rs1, src1.fp, 0)

emit_i8x16_replace_lane(dst, src1, src2, imm_lane_idx, ub) ==
  <<VUset(kScratchReg, 64)>> \o LaneMask(imm_lane_idx)
  \o <<VUset(kScratchReg, 8), VMerge(dst, GpOf(src2, ub), src1)>>
emit_i16x8_replace_lane(dst, src1, src2, imm_lane_idx, ub) ==
  <<VUset(kScratchReg, 16)>> \o LaneMask(imm_lane_idx)
  \o <<VMerge(dst, GpOf(src2, ub), src1)>>
emit_i32x4_replace_lane(dst, src1, src2, imm_lane_idx, ub) ==
  <<VUset(kScratchReg, 32)>> \o LaneMask(imm_lane_idx)
  \o <<VMerge(dst, GpOf(src2, ub), src1)>>
emit_i64x2_replace_lane(dst, src1, src2, imm_lane_idx, ub) ==
  <<VUset(kScratchReg, 64)>> \o LaneMask(imm_lane_idx)
  \o <<VMerge(dst, GpOf(src2, ub), src1)>>
emit_f32x4_replace_lane(dst, src1, src2, imm_lane_idx, ub) ==
  <<VUset(kScratchReg, 32)>> \o LaneMask(imm_lane_idx)
  \o <<Ins("fmv_x_w", kScratchReg, src2.fp, no_reg, 0),
       VMerge(dst, kScratchReg, src1)>>
emit_f64x2_replace_lane(dst, src1, src2, imm_lane_idx, ub) ==
  <<VUset(kScratchReg, 64)>> \o LaneMask(imm_lane_idx)
  \o <<Ins("fmv_x_d", kScratchReg, src2.fp, no_reg, 0),
       VMerge(dst, kScratchReg, src1)>>

LaneShapes == {"i8x16", "i16x8", "i32x4", "i64x2", "f32x4", "f64x2"}
LaneBits(shape) ==
  CASE shape = "i8x16" -> 8 [] shape = "i16x8" -> 16
    [] shape \in {"i32x4", "f32x4"} -> 32 [] OTHER -> 64
\* The kind of the scalar a lane is replaced by and extracted to.
LaneKind(shape) ==
  CASE shape = "i64x2" -> "kI64" [] shape = "f32x4" -> "kF32"
    [] shape = "f64x2" -> "kF64" [] OTHER -> "kI32"
\* The extract lowerings of a shape (signed and unsigned for narrow lanes).
Extracts(shape) == IF shape \in {"i8x16", "i16x8"} THEN {"s", "u"} ELSE {"-"}

ReplaceLane(shape, dst, src1, src2, imm_lane_idx, ub) ==
  CASE shape = "i8x16" -> emit_i8x16_replace_lane(dst, src1, src2, imm_lane_idx, ub)
    [] shape = "i16x8" -> emit_i16x8_replace_lane(dst, src1, src2, imm_lane_idx, ub)
    [] shape = "i32x4" -> emit_i32x4_replace_lane(dst, src1, src2, imm_lane_idx, ub)
    [] shape = "i64x2" -> emit_i64x2_replace_lane(dst, src1, src2, imm_lane_idx, ub)
    [] shape = "f32x4" -> emit_f32x4_replace_lane(dst, src1, src2, imm_lane_idx, ub)
    [] shape = "f64x2" -> emit_f64x2_replace_lane(dst, src1, src2, imm_lane_idx, ub)

ExtractLane(shape, sign, dst, lhs, imm_lane_idx, ub) ==
  CASE shape = "i8x16" /\ sign = "s" -> emit_i8x16_extract_lane_s(dst, lhs, imm_lane_idx, ub)
    [] shape = "i8x16" /\ sign = "u" -> emit_i8x16_extract_lane_u(dst, lhs, imm_lane_idx, ub)
    [] shape = "i16x8" /\ sign = "s" -> emit_i16x8_extract_lane_s(dst, lhs, imm_lane_idx, ub)
    [] shape = "i16x8" /\ sign = "u" -> emit_i16x8_extract_lane_u(dst, lhs, imm_lane_idx, ub)
    [] shape = "i32x4" -> emit_i32x4_extract_lane(dst, lhs, imm_lane_idx, ub)
    [] shape = "i64x2" -> emit_i64x2_extract_lane(dst, lhs, imm_lane_idx, ub)
    [] shape = "f32x4" -> emit_f32x4_extract_lane(dst, lhs, imm_lane_idx, ub)
    [] shape = "f64x2" -> emit_f64x2_extract_lane(dst, lhs, imm_lane_idx, ub)

\* The bits of a lane that a scalar register of the shape's kind holds.
LaneValue(shape, reg, st) ==
  CASE shape = "i64x2" -> WordBytes(st.gp[reg.low]) \o WordBytes(st.gp[reg.high])
    [] shape = "f32x4" -> SubSeq(st.fr[reg.fp], 1, 4)
    [] shape = "f64x2" -> st.fr[reg.fp]
    [] OTHER -> SubSeq(WordBytes(st.gp[reg.gp]), 1, LaneBits(shape) \div 8)

\* The choices for gp() of a register that is no single gp register.
UbChoices(reg) == IF reg.cls = "pair" THEN CacheRegs \cup {no_reg} ELSE {no_reg}

InitLane ==
  /\ mcode = <<>>
  /\ mphase = "start"
  /\ margs = [shape |-> "i32x4", idx |-> 0, vec |-> FpReg("fa0"),
              x |-> <<>>, out |-> GpReg("a0"), extracted |-> FALSE]
  /\ mpc = 1
  /\ mst \in {MachInit(p) : p \in MachPatterns}
  /\ OthersIdle("mach")

\* Lowering of replace_lane(src1, idx, src2) into dst.
EmitReplaceLane ==
  /\ mphase = "start"
  /\ \E shape \in LaneShapes, dst \in {FpReg(f) : f \in SpillFpRegs},
        src1 \in {FpReg(f) : f \in SpillFpRegs} :
       \E imm_lane_idx \in 0..((128 \div LaneBits(shape)) - 1),
          src2 \in RegsFor(LaneKind(shape)) :
         \E ub \in UbChoices(src2) :
           /\ margs' = [margs EXCEPT !.shape = shape, !.idx = imm_lane_idx,
                                     !.vec = dst,
                                     !.x = LaneValue(shape, src2, mst)]
           /\ IF src2.cls = "pair" /\ ub = no_reg
              THEN mphase' = "fatal" /\ UNCHANGED mcode
              ELSE /\ mcode' = ReplaceLane(shape, dst, src1, src2, imm_lane_idx, ub)
                   /\ mphase' = "running"
  /\ UNCHANGED <<mpc, mst>>
  /\ OthersUnchanged("mach")

\* Lowering of the extract_lane of the same lane that follows.
EmitExtractLane ==
  /\ mphase = "running"
  /\ mpc > Len(mcode)
  /\ ~margs.extracted
  /\ \E sign \in Extracts(margs.shape),
        dst \in RegsFor(LaneKind(margs.shape)) :
       \E ub \in UbChoices(dst) :
         /\ margs' = [margs EXCEPT !.out = dst, !.extracted = TRUE]
         /\ IF dst.cls = "pair" /\ ub = no_reg
            THEN mphase' = "fatal" /\ UNCHANGED mcode
            ELSE /\ mcode' = mcode \o ExtractLane(margs.shape, sign, dst,
                                                  margs.vec, margs.idx, ub)
                 /\ UNCHANGED mphase
  /\ UNCHANGED <<mpc, mst>>
  /\ OthersUnchanged("mach")

NextLane == EmitReplaceLane \/ MachStep \/ EmitExtractLane

SpecLane == InitLane /\ [][NextLane]_vars

LaneDone == mphase = "running" /\ margs.extracted /\ mpc > Len(mcode)

\* C9: for every lane shape and every valid lane index, replace_lane
\* followed by extract_lane of the same lane yields every bit of the lane
\* width of the value put in, both words of a 64-bit lane included.
C9_LaneRoundTrip ==
  LaneDone => LaneValue(margs.shape, margs.out, mst) = margs.x

----------------------------------------------------------------------------
(* NaN-aware vector minimum and maximum.                                   *)

\* const int32_t kNaN = 0x7FC00000
kNaN == 2143289344

\* bailout(kSimd, ...): nothing is emitted and the function is left to
\* another tier.
Bailout == <<Ins("bailout", no_reg, no_reg, no_reg, 0)>>

\* (the rhs mask is not combined into v0)
emit_f32x4_min_lhs_mask(dst, lhs, rhs) ==
  <<VUset(kScratchReg, 32),
    Ins("vmfeq_vv", v0, lhs.fp, lhs.fp, 0),
    Ins("vmfeq_vv", kSimd128ScratchReg, rhs.fp, rhs.fp, 0),
    Ins("li", kScratchReg, no_reg, no_reg, kNaN),
    Ins("vmv_vx", kSimd128ScratchReg, kScratchReg, no_reg, 0),
    Ins("vfmin_vv_m", kSimd128ScratchReg, lhs.fp, rhs.fp, 0),
    Ins("vmv_vv", dst.fp, kSimd128ScratchReg, no_reg, 0)>>

emit_f32x4_min(dst, lhs, rhs) ==
  <<VUset(kScratchReg, 32),
    Ins("vmfeq_vv", v0, lhs.fp, lhs.fp, 0),
    Ins("vmfeq_vv", kSimd128ScratchReg, rhs.fp, rhs.fp, 0),
    Ins("vand_vv", v0, kSimd128ScratchReg, v0, 0),
    Ins("li", kScratchReg, no_reg, no_reg, kNaN),
    Ins("vmv_vx", kSimd128ScratchReg, kScratchReg, no_reg, 0),
    Ins("vfmin_vv_m", kSimd128ScratchReg, lhs.fp, rhs.fp, 0),
    Ins("vmv_vv", dst.fp, kSimd128ScratchReg, no_reg, 0)>>

emit_f32x4_max(dst, lhs, rhs) ==
  <<VUset(kScratchReg, 32),
    Ins("vmfeq_vv", v0, lhs.fp, lhs.fp, 0),
    Ins("vmfeq_vv", kSimd128ScratchReg, rhs.fp, rhs.fp, 0),
    Ins("vand_vv", v0, kSimd128ScratchReg, v0, 0),
    Ins("li", kScratchReg, no_reg, no_reg, kNaN),
    Ins("vmv_vx", kSimd128ScratchReg, kScratchReg, no_reg, 0),
    Ins("vfmax_vv_m", kSimd128ScratchReg, lhs.fp, rhs.fp, 0),
    Ins("vmv_vv", dst.fp, kSimd128ScratchReg, no_reg, 0)>>

emit_f64x2_min(dst, lhs, rhs) == Bailout
emit_f64x2_max(dst, lhs, rhs) == Bailout

MinMaxOps == {"f32x4_min", "f32x4_max", "f64x2_min", "f64x2_max"}
MinMaxBits(op) == IF op \in {"f32x4_min", "f32x4_max"} THEN 32 ELSE 64
MinOrMax(op) == IF op \in {"f32x4_min", "f64x2_min"} THEN "min" ELSE "max"
MinMaxLowering(op, dst, lhs, rhs) ==
  CASE op = "f32x4_min" -> emit_f32x4_min(dst, lhs, rhs)
    [] op = "f32x4_max" -> emit_f32x4_max(dst, lhs, rhs)
    [] op = "f64x2_min" -> emit_f64x2_min(dst, lhs, rhs)
    [] op = "f64x2_max" -> emit_f64x2_max(dst, lhs, rhs)

\* Single-precision bit patterns: 1.0, -2.0, the zeros, infinity and NaNs
\* (quiet with a payload, signalling, negative).
F1 == <<0, 0, 128, 63>>
FM2 == <<0, 0, 0, 192>>
FP0 == <<0, 0, 0, 0>>
FM0 == <<0, 0, 0, 128>>
FInf == <<0, 0, 128, 127>>
FQNaN == <<1, 0, 192, 127>>
FSNaN == <<1, 0, 128, 127>>
FNNaN == <<0, 0, 192, 255>>
\* Double-precision: a quiet NaN with a payload, and 1.0.
DQNaN == <<1, 0, 0, 0, 0, 0, 248, 127>>
D1 == <<0, 0, 0, 0, 0, 0, 240, 63>>
TestVectors ==
  {F1 \o FM2 \o FP0 \o FM0,
   FM2 \o F1 \o FM0 \o FP0,
   FQNaN \o F1 \o FSNaN \o FInf,
   F1 \o FNNaN \o FInf \o FSNaN,
   DQNaN \o D1,
   D1 \o DQNaN}

\* The result a lane must have: the canonical NaN if either operand is a
\* NaN, the minimum or maximum otherwise.
LaneMinMax(op, a, b) ==
  IF FIsNaN(a) \/ FIsNaN(b) THEN CanonicalNaN(Len(a)) ELSE FMinMax(op, a, b)
VectorMinMax(op, va, vb) ==
  SetElems(MinMaxBits(op),
           LAMBDA k : LaneMinMax(MinOrMax(op), Elem(va, MinMaxBits(op), k),
                                 Elem(vb, MinMaxBits(op), k)))

InitMinMax ==
  /\ mcode = <<>>
  /\ mphase = "start"
  /\ margs = [op |-> "f32x4_min", dst |-> FpReg("fa0"), a |-> <<>>, b |-> <<>>]
  /\ mpc = 1
  /\ \E va \in TestVectors, vb \in TestVectors :
       mst = [MachInit(0) EXCEPT !.vr["fa0"] = va, !.vr["fa1"] = vb]
  /\ OthersIdle("mach")

\* Lowering of a vector min or max of two registers into some register.
EmitMinMax ==
  /\ mphase = "start"
  /\ \E op \in MinMaxOps, dst \in FpCacheRegs, lhs \in SpillFpRegs,
        rhs \in SpillFpRegs :
       /\ margs' = [op |-> op, dst |-> FpReg(dst), a |-> mst.vr[lhs],
                    b |-> mst.vr[rhs]]
       /\ IF MinMaxLowering(op, FpReg(dst), FpReg(lhs), FpReg(rhs)) = Bailout
          THEN mphase' = "bailout" /\ UNCHANGED mcode
          ELSE /\ mcode' = MinMaxLowering(op, FpReg(dst), FpReg(lhs), FpReg(rhs))
               /\ mphase' = "running"
  /\ UNCHANGED <<mpc, mst>>
  /\ OthersUnchanged("mach")

NextMinMax == EmitMinMax \/ MachStep

SpecMinMax == InitMinMax /\ [][NextMinMax]_vars

MinMaxRan == mphase = "running" /\ mpc > Len(mcode)
MinMaxResult == mst.vr[margs.dst.fp] = VectorMinMax(margs.op, margs.a, margs.b)

\* C10 as stated: the min and max lowerings for f32x4 and for f64x2 produce
\* in every lane the canonical NaN if either operand is a NaN and the
\* min/max of the operands otherwise.
C10_BothWidths ==
  /\ mphase \notin {"bailout", "trap"}
  /\ MinMaxRan => MinMaxResult

\* C10, amended: the f32x4 lowerings produce that result; the f64x2
\* lowerings emit nothing and signal a bail-out.
C10_SingleOnly ==
  /\ mphase # "trap"
  /\ (mphase # "start" /\ MinMaxBits(margs.op) = 32) =>
       (mphase = "running" /\ (MinMaxRan => MinMaxResult))
  /\ (mphase # "start" /\ MinMaxBits(margs.op) = 64) =>
       (mphase = "bailout" /\ mcode = <<>>)

\* An f32x4 min ran on operands with a NaN in lane 0 of one operand only
\* and a NaN in lane 1 of the other only; both result lanes are canonical.
C10_Witness ==
  /\ MinMaxRan
  /\ margs.op = "f32x4_min"
  /\ margs.a = FQNaN \o F1 \o FSNaN \o FInf
  /\ margs.b = F1 \o FNNaN \o FInf \o FSNaN
  /\ Elem(mst.vr[margs.dst.fp], 32, 0) = CanonicalNaN(4)
  /\ Elem(mst.vr[margs.dst.fp], 32, 1) = CanonicalNaN(4)
  /\ MinMaxResult

----------------------------------------------------------------------------
(* Int64 comparisons.                                                      *)

\* liftoff::ToCondition
LiftoffConditions == {"kEqual", "kUnequal", "kSignedLessThan", "kSignedLessEqual",
                      "kSignedGreaterThan", "kSignedGreaterEqual",
                      "kUnsignedLessThan", "kUnsignedLessEqual",
                      "kUnsignedGreaterThan", "kUnsignedGreaterEqual"}
ToCondition(liftoff_cond) ==
  CASE liftoff_cond = "kEqual" -> "eq"
    [] liftoff_cond = "kUnequal" -> "ne"
    [] liftoff_cond = "kSignedLessThan" -> "lt"
    [] liftoff_cond = "kSignedLessEqual" -> "le"
    [] liftoff_cond = "kSignedGreaterThan" -> "gt"
    [] liftoff_cond = "kSignedGreaterEqual" -> "ge"
    [] liftoff_cond = "kUnsignedLessThan" -> "ult"
    [] liftoff_cond = "kUnsignedLessEqual" -> "ule"
    [] liftoff_cond = "kUnsignedGreaterThan" -> "ugt"
    [] liftoff_cond = "kUnsignedGreaterEqual" -> "uge"

\* TurboAssembler::Sltu(rd, rs, imm) and CompareI(rd, rs, Operand(rt), cond)
Sltu(rd, rs, imm) == Ins("sltiu", rd, rs, no_reg, imm)
CompareI(rd, rs, rt, cond) == Ins("CompareI", rd, rs, rt, cond)

\* LiftoffAssembler::emit_i64_eqz(dst, src)
emit_i64_eqz(dst, src, ub) == <<Sltu(dst, GpOf(src, ub), 1)>>

\* LiftoffAssembler::emit_i64_set_cond(liftoff_cond, dst, lhs, rhs)
emit_i64_set_cond(liftoff_cond, dst, lhs, rhs, ubl, ubr) ==
  <<CompareI(dst, GpOf(lhs, ubl), GpOf(rhs, ubr), ToCondition(liftoff_cond))>>

\* 64-bit values as <<low word, high word>>.
I64Zero == <<Zero32, Zero32>>
I64MinusOne == <<AllOnes, AllOnes>>
I64Min == <<Zero32, W(2^15, 0)>>
I64Max == <<AllOnes, W(2^15 - 1, 65535)>>
I64One == <<One32, Zero32>>
I64HighOne == <<One32, One32>>
I64Values == {I64Zero, I64MinusOne, I64Min, I64Max, I64One, I64HighOne}

\* The condition on two 64-bit values.
Holds64(cond, a, b) ==
  CASE cond = "eq" -> a = b
    [] cond = "ne" -> a # b
    [] cond = "lt" -> Slt32(a[2], b[2]) \/ (a[2] = b[2] /\ Ult32(a[1], b[1]))
    [] cond = "le" -> Slt32(a[2], b[2]) \/ (a[2] = b[2] /\ ~Ult32(b[1], a[1]))
    [] cond = "gt" -> Slt32(b[2], a[2]) \/ (a[2] = b[2] /\ Ult32(b[1], a[1]))
    [] cond = "ge" -> Slt32(b[2], a[2]) \/ (a[2] = b[2] /\ ~Ult32(a[1], b[1]))
    [] cond = "ult" -> Ult32(a[2], b[2]) \/ (a[2] = b[2] /\ Ult32(a[1], b[1]))
    [] cond = "ule" -> Ult32(a[2], b[2]) \/ (a[2] = b[2] /\ ~Ult32(b[1], a[1]))
    [] cond = "ugt" -> Ult32(b[2], a[2]) \/ (a[2] = b[2] /\ Ult32(b[1], a[1]))
    [] cond = "uge" -> Ult32(b[2], a[2]) \/ (a[2] = b[2] /\ ~Ult32(a[1], b[1]))

\* The operands live in the pairs (a0, a1) and (a2, a3).
CmpLhs == PairReg("a0", "a1")
CmpRhs == PairReg("a2", "a3")

InitCmp64 ==
  /\ mcode = <<>>
  /\ mphase = "start"
  /\ margs = [op |-> "eqz", cond |-> "kEqual", dst |-> no_reg,
              a |-> I64Zero, b |-> I64Zero]
  /\ mpc = 1
  /\ \E a \in I64Values, b \in I64Values :
       mst = [MachInit(0) EXCEPT !.gp["a0"] = a[1], !.gp["a1"] = a[2],
                                 !.gp["a2"] = b[1], !.gp["a3"] = b[2]]
  /\ OthersIdle("mach")

\* Lowering of i64.eqz of the first operand.
EmitI64Eqz ==
  /\ mphase = "start"
  /\ \E dst \in {"a0", "a4"}, ub \in UbChoices(CmpLhs) :
       /\ margs' = [margs EXCEPT !.op = "eqz", !.dst = dst,
                                 !.a = RegValue("kI64", CmpLhs, mst),
                                 !.b = RegValue("kI64", CmpRhs, mst)]
       /\ IF ub = no_reg THEN mphase' = "fatal" /\ UNCHANGED mcode
          ELSE mcode' = emit_i64_eqz(dst, CmpLhs, ub) /\ mphase' = "running"
  /\ UNCHANGED <<mpc, mst>>
  /\ OthersUnchanged("mach")

\* Lowering of an i64 comparison of the two operands.
EmitI64SetCond ==
  /\ mphase = "start"
  /\ \E liftoff_cond \in LiftoffConditions, dst \in {"a0", "a4"},
        ubl \in UbChoices(CmpLhs), ubr \in UbChoices(CmpRhs) :
       /\ margs' = [margs EXCEPT !.op = "set_cond", !.cond = liftoff_cond,
                                 !.dst = dst,
                                 !.a = RegValue("kI64", CmpLhs, mst),
                                 !.b = RegValue("kI64", CmpRhs, mst)]
       /\ IF ubl = no_reg \/ ubr = no_reg
          THEN mphase' = "fatal" /\ UNCHANGED mcode
          ELSE /\ mcode' = emit_i64_set_cond(liftoff_cond, dst, CmpLhs, CmpRhs,
                                             ubl, ubr)
               /\ mphase' = "running"
  /\ UNCHANGED <<mpc, mst>>
  /\ OthersUnchanged("mach")

NextCmp64 == EmitI64Eqz \/ EmitI64SetCond \/ MachStep

SpecCmp64 == InitCmp64 /\ [][NextCmp64]_vars

Cmp64Done == mphase = "running" /\ mpc > Len(mcode)

\* C11: emit_i64_set_cond leaves 1 in dst exactly when the two 64-bit
\* values (high:low) satisfy the condition and 0 otherwise; emit_i64_eqz
\* leaves 1 exactly when both words of src are zero.
C11_CompareFull64 ==
  Cmp64Done =>
    mst.gp[margs.dst] =
      (IF (IF margs.op = "eqz" THEN margs.a = I64Zero
           ELSE Holds64(ToCondition(margs.cond), margs.a, margs.b))
       THEN One32 ELSE Zero32)

----------------------------------------------------------------------------
(* Int64 shifts by a register amount.                                      *)

\* TurboAssembler::ShlPair / SarPair / ShrPair(dst_low, dst_high, src_low,
\* src_high, shamt, scratch1, scratch2): the destination is written one
\* register at a time while the source and the amount are still being read.
PairShift(emit_shift, dst_low, dst_high, src_low, src_high, shamt, scratch1, scratch2) ==
  <<Ins("mv", scratch1, shamt, no_reg, 0),
    Ins("li", scratch2, no_reg, no_reg, 32),
    Ins("PairLow", dst_low, src_low, src_high, [shift |-> emit_shift, shamt |-> shamt]),
    Ins("PairHigh", dst_high, src_low, src_high, [shift |-> emit_shift, shamt |-> shamt])>>

\* TurboAssembler::Move(dst, src)
Move(dst, src) == IF dst = src THEN <<>> ELSE <<Ins("mv", dst, src, no_reg, 0)>>

\* liftoff::IsRegInRegPair and LiftoffRegister::overlaps on two pairs
IsRegInRegPair(pair, reg) == pair.low = reg \/ pair.high = reg
PairRegs(pair) == {pair.low, pair.high}
Overlaps(a, b) == PairRegs(a) \cap PairRegs(b) # {}

\* A faulty variant of Emit64BitShiftOperation: only the amount is tested.
Emit64BitShiftOperationAmountOnly(dst, src, amount, emit_shift, tmp) ==
  IF IsRegInRegPair(dst, amount)
  THEN PairShift(emit_shift, tmp.low, tmp.high, src.low, src.high, amount,
                 kScratchReg, kScratchReg2)
       \o Move(dst.high, tmp.high) \o Move(dst.low, tmp.low)
  ELSE PairShift(emit_shift, dst.low, dst.high, src.low, src.high, amount,
                 kScratchReg, kScratchReg2)

\* liftoff::Emit64BitShiftOperation(assm, dst, src, amount, emit_shift);
\* tmp is the pair GetUnusedRegister(kGpRegPair, {dst, src, amount}) returns.
Emit64BitShiftOperation(dst, src, amount, emit_shift, tmp) ==
  IF IsRegInRegPair(dst, amount) \/ Overlaps(dst, src)
  THEN PairShift(emit_shift, tmp.low, tmp.high, src.low, src.high, amount,
                 kScratchReg, kScratchReg2)
       \o Move(dst.high, tmp.high) \o Move(dst.low, tmp.low)
  ELSE PairShift(emit_shift, dst.low, dst.high, src.low, src.high, amount,
                 kScratchReg, kScratchReg2)

\* emit_i64_shl, emit_i64_sar, emit_i64_shr
ShiftPrimitives == {"ShlPair", "SarPair", "ShrPair"}

\* The cache registers the operands and the spare pair are drawn from.
ShiftCacheRegs == CacheRegs \cup {"a5", "a6"}
ShiftDstRegs == {"a0", "a1", "a2", "a3"}
ShiftAmountRegs == {"a0", "a2", "a4"}
ShiftSrc == PairReg("a0", "a1")
ShiftAmounts == {0, 1, 31, 32, 63}
ShiftValues == {I64MinusOne, I64Min, I64HighOne}

InitShift ==
  /\ mcode = <<>>
  /\ mphase = "start"
  /\ margs = [dst |-> ShiftSrc, src |-> ShiftSrc, amount |-> no_reg,
              tmp |-> ShiftSrc, shift |-> "ShlPair", x |-> I64Zero, n |-> Zero32]
  /\ mpc = 1
  /\ \E v \in ShiftValues, n \in ShiftAmounts :
       mst = [MachInit(0) EXCEPT !.gp =
                [r \in ShiftCacheRegs \cup {kScratchReg, kScratchReg2, zero_reg} |->
                   CASE r = "a0" -> v[1]
                     [] r = "a1" -> v[2]
                     [] r \in {"a2", "a4"} -> FromInt(n)
                     [] OTHER -> Zero32]]
  /\ OthersIdle("mach")

\* One call of emit_i64_shl / emit_i64_sar / emit_i64_shr.
EmitShift ==
  /\ mphase = "start"
  /\ \E dl \in ShiftDstRegs, dh \in ShiftDstRegs, amount \in ShiftAmountRegs,
        emit_shift \in ShiftPrimitives :
       /\ dl # dh
       /\ LET dst == PairReg(dl, dh)
              pinned == PairRegs(dst) \cup PairRegs(ShiftSrc) \cup {amount}
          IN \E tl \in ShiftCacheRegs \ pinned, th \in ShiftCacheRegs \ pinned :
               /\ tl # th
               /\ mcode' = Emit64BitShiftOperation(dst, ShiftSrc, amount,
                                                   emit_shift, PairReg(tl, th))
               /\ margs' = [dst |-> dst, src |-> ShiftSrc, amount |-> amount,
                            tmp |-> PairReg(tl, th), shift |-> emit_shift,
                            x |-> RegValue("kI64", ShiftSrc, mst),
                            n |-> mst.gp[amount]]
  /\ mphase' = "running"
  /\ UNCHANGED <<mpc, mst>>
  /\ OthersUnchanged("mach")

NextShift == EmitShift \/ MachStep

SpecShift == InitShift /\ [][NextShift]_vars

\* The registers the pair primitive writes its result to.
PrimitiveDst == {mcode[k].rd : k \in {j \in 1..Len(mcode) : mcode[j].op \in {"PairLow", "PairHigh"}}}
ShiftAliased == margs.amount \in PairRegs(margs.dst) \/ PairRegs(margs.dst) \cap PairRegs(margs.src) # {}
ShiftDone == mphase = "running" /\ mpc > Len(mcode)

\* C12: the pair handed to the shift primitive as destination shares no
\* register with src or amount; when dst contains the amount register or
\* shares a register with src it is the freshly allocated pair, disjoint from
\* dst, src and amount, and the result is moved into dst afterwards; at the
\* end dst holds the shift of the original src by the original amount.
C12_ShiftNoAlias ==
  mphase = "running" =>
    /\ PrimitiveDst \cap (PairRegs(margs.src) \cup {margs.amount}) = {}
    /\ ShiftAliased =>
         /\ PrimitiveDst = PairRegs(margs.tmp)
         /\ PrimitiveDst \cap PairRegs(margs.dst) = {}
         /\ Len(mcode) >= 2
         /\ mcode[Len(mcode) - 1] = Ins("mv", margs.dst.high, margs.tmp.high, no_reg, 0)
         /\ mcode[Len(mcode)] = Ins("mv", margs.dst.low, margs.tmp.low, no_reg, 0)
    /\ ~ShiftAliased => PrimitiveDst = PairRegs(margs.dst)
    /\ ShiftDone =>
         RegValue("kI64", margs.dst, mst) = Shift64(margs.shift, margs.x, margs.n)

\* C12 witness: a shift whose dst contained the amount register and a source
\* register has run to its end through the spare pair.
C12_Witness ==
  /\ ShiftDone
  /\ margs.amount \in PairRegs(margs.dst)
  /\ PairRegs(margs.dst) \cap PairRegs(margs.src) # {}
  /\ margs.n = FromInt(32)
  /\ RegValue("kI64", margs.dst, mst) # margs.x

----------------------------------------------------------------------------
(* PushRegisters / PopRegisters.                                           *)

\* kGpCacheRegList and kFpCacheRegList in register-code order.
GpCacheOrder == <<"a0", "a1", "a2", "a3", "a4">>
FpCacheOrder == <<"fa0", "fa1", "fa2">>
RegsInOrder(order, regs) == SelectSeq(order, LAMBDA r : r \in regs)
Reversed(q) == [k \in 1..Len(q) |-> q[Len(q) + 1 - k]]

\* LiftoffAssembler::PushRegisters(regs)
PushRegisters(regs) ==
  LET gp_regs == RegsInOrder(GpCacheOrder, regs)
      num_gp_regs == Len(gp_regs)
      fp_regs == RegsInOrder(FpCacheOrder, regs)
      num_fp_regs == Len(fp_regs)
  IN  (IF num_gp_regs # 0
       THEN AddImm(sp, sp, 0 - num_gp_regs * kSystemPointerSize)
            \o [k \in 1..num_gp_regs |->
                  Sw(gp_regs[k], MemOperand(sp, (num_gp_regs - k) * kSystemPointerSize))]
       ELSE <<>>)
      \o
      (IF num_fp_regs # 0
       THEN AddImm(sp, sp, 0 - num_fp_regs * kStackSlotSize)
            \o [k \in 1..num_fp_regs |->
                  StoreDouble(fp_regs[k], MemOperand(sp, (k - 1) * 8))]
       ELSE <<>>)

\* The body of PopRegisters, given the order the gp registers are taken in.
PopRegistersIn(regs, gp_regs) ==
  LET fp_regs == RegsInOrder(FpCacheOrder, regs)
      fp_offset == Len(fp_regs) * 8
      gp_offset == Len(gp_regs) * kSystemPointerSize
  IN  [k \in 1..Len(fp_regs) |-> LoadDouble(fp_regs[k], MemOperand(sp, (k - 1) * 8))]
      \o (IF fp_offset # 0 THEN AddImm(sp, sp, fp_offset) ELSE <<>>)
      \o [k \in 1..Len(gp_regs) |->
            Lw(gp_regs[k], MemOperand(sp, (k - 1) * kSystemPointerSize))]
      \o AddImm(sp, sp, gp_offset)

\* A faulty variant of PopRegisters: the gp registers are taken first to last.
PopRegistersFirstSet(regs) == PopRegistersIn(regs, RegsInOrder(GpCacheOrder, regs))

\* LiftoffAssembler::PopRegisters(regs): GetLastRegSet takes the gp
\* registers last to first.
PopRegisters(regs) == PopRegistersIn(regs, Reversed(RegsInOrder(GpCacheOrder, regs)))

PushPopStackPointer == W(0, 448)

InitPushPop ==
  /\ mcode = <<>>
  /\ mphase = "start"
  /\ margs = [regs |-> {}, stage |-> "none", gp |-> <<>>, fr |-> <<>>]
  /\ mpc = 1
  /\ \E p \in MachPatterns : mst = [MachInit(p) EXCEPT !.gp[sp] = PushPopStackPointer]
  /\ OthersIdle("mach")

\* PushRegisters of some register list.
EmitPushRegisters ==
  /\ mphase = "start"
  /\ \E regs \in SUBSET (CacheRegs \cup FpCacheRegs) :
       /\ mcode' = PushRegisters(regs)
       /\ margs' = [regs |-> regs, stage |-> "push", gp |-> mst.gp, fr |-> mst.fr]
  /\ mphase' = "running"
  /\ UNCHANGED <<mpc, mst>>
  /\ OthersUnchanged("mach")

\* The code between the push and the pop overwrites the saved registers.
ClobberPushed ==
  /\ mphase = "running" /\ mpc > Len(mcode)
  /\ margs.stage = "push"
  /\ margs' = [margs EXCEPT !.stage = "clobbered"]
  /\ mst' = [mst EXCEPT
               !.gp = [r \in DOMAIN mst.gp |-> IF r \in margs.regs THEN Zero32 ELSE mst.gp[r]],
               !.fr = [r \in DOMAIN mst.fr |-> IF r \in margs.regs THEN [k \in 1..8 |-> 0] ELSE mst.fr[r]]]
  /\ UNCHANGED <<mcode, mphase, mpc>>
  /\ OthersUnchanged("mach")

\* PopRegisters of the same register list.
EmitPopRegisters ==
  /\ mphase = "running" /\ mpc > Len(mcode)
  /\ margs.stage \in {"push", "clobbered"}
  /\ mcode' = PopRegisters(margs.regs)
  /\ mpc' = 1
  /\ margs' = [margs EXCEPT !.stage = "pop"]
  /\ UNCHANGED <<mphase, mst>>
  /\ OthersUnchanged("mach")

NextPushPop == EmitPushRegisters \/ ClobberPushed \/ EmitPopRegisters \/ MachStep

SpecPushPop == InitPushPop /\ [][NextPushPop]_vars

PushPopDone == mphase = "running" /\ margs.stage = "pop" /\ mpc > Len(mcode)

\* C13: after PushRegisters(S) followed by PopRegisters(S), every register
\* (gp and fp, in S or not) and sp hold the values they had before the push,
\* whatever happened to the registers of S in between.
C13_PushPopRoundTrip ==
  /\ mphase # "trap"
  /\ PushPopDone =>
       /\ \A r \in CacheRegs \cup {sp, fp} : mst.gp[r] = margs.gp[r]
       /\ \A f \in FpCacheRegs : mst.fr[f] = margs.fr[f]

\* C13 witness: a list of several gp and fp registers was pushed, the
\* registers were overwritten, and the pop has completed.
C13_Witness ==
  /\ PushPopDone
  /\ margs.regs = {"a0", "a3", "a4", "fa0", "fa2"}
  /\ mst.mem[PushPopStackPointer[2] - 4] # StackMem[PushPopStackPointer[2] - 4]
  /\ mst.gp["a3"] # Zero32

----------------------------------------------------------------------------
(* Operations without a lowering.                                          *)

\* What one lowering function did: the code it emitted, the bail-out it
\* signalled (reason "none" if it signalled none) and what it returned.
Lowered(code, reason, detail, ret) ==
  [code |-> code, bailout |-> [reason |-> reason, detail |-> detail], ret |-> ret]

\* A faulty variant of emit_i64_clz: the bail-out names another operation.
emit_i64_clz_as_ctz(dst, src) ==
  Lowered(<<>>, "kUnsupportedArchitecture", "emit_i64_ctz", "void")

emit_i64_clz(dst, src) ==
  Lowered(<<>>, "kUnsupportedArchitecture", "emit_i64_clz", "void")
emit_i64_ctz(dst, src) ==
  Lowered(<<>>, "kUnsupportedArchitecture", "emit_i64_ctz", "void")
emit_i64_popcnt(dst, src) ==
  Lowered(<<>>, "kUnsupportedArchitecture", "emit_i64_popcnt", "true")
emit_i64_divs(dst, lhs, rhs) == Lowered(<<>>, "none", "", "false")
emit_i64_divu(dst, lhs, rhs) == Lowered(<<>>, "none", "", "false")
emit_i64_rems(dst, lhs, rhs) == Lowered(<<>>, "none", "", "false")
emit_i64_remu(dst, lhs, rhs) == Lowered(<<>>, "none", "", "false")
emit_i32x4_extadd_pairwise_i16x8_s(dst, src) ==
  Lowered(<<>>, "kSimd", "emit_i32x4_extadd_pairwise_i16x8_s", "void")
emit_i32x4_extadd_pairwise_i16x8_u(dst, src) ==
  Lowered(<<>>, "kSimd", "emit_i32x4_extadd_pairwise_i16x8_u", "void")
emit_i16x8_extadd_pairwise_i8x16_s(dst, src) ==
  Lowered(<<>>, "kSimd", "emit_i16x8_extadd_pairwise_i8x16_s", "void")
emit_i16x8_extadd_pairwise_i8x16_u(dst, src) ==
  Lowered(<<>>, "kSimd", "emit_i16x8_extadd_pairwise_i8x16_u", "void")

I64UnaryOps == {"emit_i64_clz", "emit_i64_ctz", "emit_i64_popcnt"}
I64DivRemOps == {"emit_i64_divs", "emit_i64_divu", "emit_i64_rems", "emit_i64_remu"}
ExtAddOps == {"emit_i32x4_extadd_pairwise_i16x8_s", "emit_i32x4_extadd_pairwise_i16x8_u",
              "emit_i16x8_extadd_pairwise_i8x16_s", "emit_i16x8_extadd_pairwise_i8x16_u"}
UnloweredOps == I64UnaryOps \cup I64DivRemOps \cup ExtAddOps

\* The call of the function named op.
CallLowering(op, dst, lhs, rhs) ==
  CASE op = "emit_i64_clz" -> emit_i64_clz(dst, lhs)
    [] op = "emit_i64_ctz" -> emit_i64_ctz(dst, lhs)
    [] op = "emit_i64_popcnt" -> emit_i64_popcnt(dst, lhs)
    [] op = "emit_i64_divs" -> emit_i64_divs(dst, lhs, rhs)
    [] op = "emit_i64_divu" -> emit_i64_divu(dst, lhs, rhs)
    [] op = "emit_i64_rems" -> emit_i64_rems(dst, lhs, rhs)
    [] op = "emit_i64_remu" -> emit_i64_remu(dst, lhs, rhs)
    [] op = "emit_i32x4_extadd_pairwise_i16x8_s" -> emit_i32x4_extadd_pairwise_i16x8_s(dst, lhs)
    [] op = "emit_i32x4_extadd_pairwise_i16x8_u" -> emit_i32x4_extadd_pairwise_i16x8_u(dst, lhs)
    [] op = "emit_i16x8_extadd_pairwise_i8x16_s" -> emit_i16x8_extadd_pairwise_i8x16_s(dst, lhs)
    [] op = "emit_i16x8_extadd_pairwise_i8x16_u" -> emit_i16x8_extadd_pairwise_i8x16_u(dst, lhs)

\* The operand registers of op: pairs for the i64 operations, vector
\* registers for the SIMD ones.
UnloweredRegs(op) ==
  IF op \in ExtAddOps THEN {FpReg(f) : f \in FpCacheRegs}
  ELSE {PairReg("a0", "a1"), PairReg("a2", "a3"), PairReg("a1", "a4")}

InitUnlowered ==
  /\ mcode = <<>>
  /\ mphase = "start"
  /\ margs = [op |-> "none", dst |-> no_reg, lhs |-> no_reg, rhs |-> no_reg,
              bailout |-> [reason |-> "none", detail |-> ""], ret |-> "void"]
  /\ mpc = 1
  /\ mst \in {MachInit(p) : p \in MachPatterns}
  /\ OthersIdle("mach")

\* One call of one of the functions.
EmitUnlowered ==
  /\ mphase = "start"
  /\ \E op \in UnloweredOps :
       \E dst \in UnloweredRegs(op), lhs \in UnloweredRegs(op), rhs \in UnloweredRegs(op) :
         LET r == CallLowering(op, dst, lhs, rhs)
         IN  /\ rhs = IF op \in I64DivRemOps THEN rhs ELSE lhs
             /\ mcode' = r.code
             /\ margs' = [op |-> op, dst |-> dst, lhs |-> lhs, rhs |-> rhs,
                          bailout |-> r.bailout, ret |-> r.ret]
             /\ mphase' = IF r.bailout.reason # "none" THEN "bailout"
                          ELSE IF r.code = <<>> THEN "nocode" ELSE "running"
  /\ UNCHANGED <<mpc, mst>>
  /\ OthersUnchanged("mach")

NextUnlowered == EmitUnlowered

SpecUnlowered == InitUnlowered /\ [][NextUnlowered]_vars

\* C14 as stated: each of these operations signals a bail-out carrying its
\* own name and emits no machine instruction.
C14_AllBailOut ==
  mphase # "start" =>
    /\ mphase = "bailout"
    /\ margs.bailout.detail = margs.op
    /\ mcode = <<>>

\* C14, amended: none of these operations emits an instruction; the i64
\* clz/ctz/popcnt and the extadd_pairwise operations signal a bail-out
\* carrying their own name, while the i64 division and remainder operations
\* signal none and return false.
C14_BailOutOrUnsupported ==
  mphase # "start" =>
    /\ mcode = <<>>
    /\ margs.op \in I64DivRemOps =>
         mphase = "nocode" /\ margs.bailout.reason = "none" /\ margs.ret = "false"
    /\ margs.op \notin I64DivRemOps =>
         /\ mphase = "bailout"
         /\ margs.bailout.detail = margs.op
         /\ margs.bailout.reason =
              (IF margs.op \in ExtAddOps THEN "kSimd" ELSE "kUnsupportedArchitecture")

\* C14 witness: a bail-out was signalled by emit_i64_clz.
C14_Witness ==
  /\ mphase = "bailout"
  /\ margs.op = "emit_i64_clz"
  /\ margs.bailout.detail = "emit_i64_clz"

----------------------------------------------------------------------------
(* The 8- and 16-bit atomic read-modify-write: two threads, each performing *)
(* up to MaxIter operations with the code of one AtomicBinop call.          *)

NarrowTypes == ByteTypes \cup HalfTypes

InitAtomicNarrow ==
  /\ ainit \in AtomInits
  /\ \E result \in {"a0", "a3"}, type \in NarrowTypes :
       \E al \in BinopAllocations("a0", "a1", "a2", result) :
         /\ aargs = [dst_addr |-> "a0", offset_reg |-> "a1", offset_imm |-> 0,
                     value |-> "a2", result |-> result, op |-> "kAdd",
                     type |-> type, store_result |-> al[1]]
         /\ acode = AtomicBinop("a0", "a1", 0, "a2", result, type, "kAdd",
                                al[1], al[2])
         /\ amem = [a \in {AtomAddr(0)} |-> ainit]
  /\ ain = [t \in Threads |-> BinopInputs(aargs, One32)]
  /\ ares = [t \in Threads |-> NoAddr]
  /\ areg = [t \in Threads |-> [x \in GpRegs |-> Zero32]]
  /\ apc = [t \in Threads |-> 0]
  /\ aiter = [t \in Threads |-> 0]
  /\ asucc = 0
  /\ OthersIdle("atom")

SpecAtomicNarrow == InitAtomicNarrow /\ [][NextAtomic]_vars

\* The operations of the emitted sequence, in order.
OpsOf(code) == [k \in 1..Len(code) |-> code[k].op]
NarrowLoadOp == IF aargs.type \in ByteTypes THEN "lbu" ELSE "lhu"
NarrowStoreOp == IF aargs.type \in ByteTypes THEN "sb" ELSE "sh"
BnezIndex == CHOOSE k \in 1..Len(acode) : acode[k].op = "bnez"

\* C15: for the 8- and 16-bit widths the emitted loop is a plain load and a
\* plain store separated by fences, with no load-reserved or
\* store-conditional, and the retry branch is never taken: whenever a thread
\* is at the branch, the register it tests is zero.
C15_NarrowPlainAccess ==
  /\ SubSeq(OpsOf(acode), 2, BnezIndex) =
       <<NarrowLoadOp, "sync", "add", "sync", NarrowStoreOp, "sync", "mv", "bnez">>
  /\ acode[BnezIndex - 1] = Ins("mv", aargs.store_result, zero_reg, no_reg, 0)
  /\ acode[BnezIndex].rs1 = aargs.store_result
  /\ \A k \in 1..Len(acode) : acode[k].op \notin {"lr_w", "lr_d", "sc_w", "sc_d"}
  /\ \A t \in Threads :
       (apc[t] \in 1..Len(acode) /\ acode[apc[t]].op = "bnez")
         => areg[t][acode[apc[t]].rs1] = Zero32

\* C15 witness: both threads have completed one 8-bit atomic add of 1 to a
\* location that held 0, and the location holds 1: one addition is lost.
C15_Witness ==
  /\ aargs.type = "kI32Store8"
  /\ ainit = Zero32
  /\ \A t \in Threads : aiter[t] = 1 /\ apc[t] = 0
  /\ amem[AtomAddr(0)] = One32

----------------------------------------------------------------------------
(* AtomicLoad / AtomicStore.                                               *)

\* Word offsets of an i64 in memory (little-endian target).
kLowWordOffset == 0
kHighWordOffset == 4

\* fence(pred, succ); PSR | PSW is written "rw".
Fence(pred, succ) == Ins("fence", no_reg, pred, succ, 0)

AtomicLoadTypes == {"kI32Load8U", "kI64Load8U", "kI32Load16U", "kI64Load16U",
                    "kI32Load", "kI64Load32U", "kI64Load"}
AtomicStoreTypes == {"kI32Store8", "kI64Store8", "kI32Store16", "kI64Store16",
                     "kI32Store", "kI64Store32", "kI64Store"}

\* LiftoffAssembler::AtomicLoad(dst, src_addr, offset_reg, offset_imm, type)
AtomicLoad(dst, src_addr, offset_reg, offset_imm, type, ub) ==
  LET src_reg == Acquire(1)
      addr == CalculateActualAddress(src_addr, offset_reg, offset_imm, src_reg)
  IN  addr \o
      CASE type \in {"kI32Load8U", "kI64Load8U"} ->
             <<Fence("rw", "rw"), Ins("lbu", GpOf(dst, ub), src_reg, no_reg, 0),
               Fence("r", "rw")>>
        [] type \in {"kI32Load16U", "kI64Load16U"} ->
             <<Fence("rw", "rw"), Ins("lhu", GpOf(dst, ub), src_reg, no_reg, 0),
               Fence("r", "rw")>>
        [] type \in {"kI32Load", "kI64Load32U"} ->
             <<Fence("rw", "rw"), Ins("lw", GpOf(dst, ub), src_reg, no_reg, 0),
               Fence("r", "rw")>>
        [] type = "kI64Load" ->
             <<Fence("rw", "rw"),
               Ins("lw", dst.low, src_reg, no_reg, kLowWordOffset),
               Ins("lw", dst.high, src_reg, no_reg, kHighWordOffset),
               Fence("r", "rw")>>
        [] OTHER -> Unreachable

\* A faulty variant of AtomicStore: the fence is emitted after the store.
AtomicStoreFenceAfter(dst_addr, offset_reg, offset_imm, src, type, ub) ==
  LET dst_reg == Acquire(1)
  IN  CalculateActualAddress(dst_addr, offset_reg, offset_imm, dst_reg)
      \o <<Ins("sw", no_reg, dst_reg, GpOf(src, ub), 0), Fence("rw", "w")>>

\* LiftoffAssembler::AtomicStore(dst_addr, offset_reg, offset_imm, src, type)
AtomicStore(dst_addr, offset_reg, offset_imm, src, type, ub) ==
  LET dst_reg == Acquire(1)
      addr == CalculateActualAddress(dst_addr, offset_reg, offset_imm, dst_reg)
  IN  addr \o
      CASE type \in {"kI64Store8", "kI32Store8"} ->
             <<Fence("rw", "w"), Ins("sb", no_reg, dst_reg, GpOf(src, ub), 0)>>
        [] type \in {"kI64Store16", "kI32Store16"} ->
             <<Fence("rw", "w"), Ins("sh", no_reg, dst_reg, GpOf(src, ub), 0)>>
        [] type \in {"kI64Store32", "kI32Store"} ->
             <<Fence("rw", "w"), Ins("sw", no_reg, dst_reg, GpOf(src, ub), 0)>>
        [] type = "kI64Store" ->
             <<Fence("rw", "w"),
               Ins("sw", no_reg, dst_reg, src.low, 0),
               Ins("sw", no_reg, dst_reg, src.high, 4)>>
        [] OTHER -> Unreachable

\* An i64 access has its value in a register pair, an i32 access in one
\* register.
IsI64Type(type) == type \in {"kI64Load8U", "kI64Load16U", "kI64Load32U", "kI64Load",
                             "kI64Store8", "kI64Store16", "kI64Store32", "kI64Store"}
AccessReg(type) == IF IsI64Type(type) THEN PairReg("a2", "a3") ELSE GpReg("a2")
\* Whether the lowering calls gp() on the value register.
UsesGp(type) == type \notin {"kI64Load", "kI64Store"}

InitAtomicAccess ==
  /\ ainit \in AtomInits
  /\ \E kind \in {"load", "store"}, imm \in AtomImms :
       \E type \in (IF kind = "load" THEN AtomicLoadTypes ELSE AtomicStoreTypes) :
         \E ub \in (IF UsesGp(type) THEN UbChoices(AccessReg(type)) ELSE {no_reg}) :
           LET fatal == UsesGp(type) /\ IsI64Type(type) /\ ub = no_reg
           IN  /\ aargs = [kind |-> kind, type |-> type, offset_imm |-> imm,
                           reg |-> AccessReg(type), fatal |-> fatal]
               /\ acode = IF fatal THEN <<>>
                          ELSE IF kind = "load"
                          THEN AtomicLoad(AccessReg(type), "a0", "a1", imm, type, ub)
                          ELSE AtomicStore("a0", "a1", imm, AccessReg(type), type, ub)
               /\ amem = [a \in {AtomAddr(imm), AtomAddr(imm + 4)} |-> ainit]
  /\ ain = [t \in Threads |->
              [x \in GpRegs |->
                 CASE x = "a0" -> AtomBase
                   [] x = "a1" -> AtomIndex
                   [] x = "a2" -> W(0, 258)
                   [] x = "a3" -> W(0, 772)
                   [] OTHER -> Zero32]]
  /\ ares = [t \in Threads |-> NoAddr]
  /\ areg = [t \in Threads |-> [x \in GpRegs |-> Zero32]]
  /\ apc = [t \in Threads |-> 0]
  /\ aiter = [t \in Threads |-> 0]
  /\ asucc = 0
  /\ OthersIdle("atom")

SpecAtomicAccess == InitAtomicAccess /\ [][NextAtomic]_vars

\* The emitted code after the address computation.
AccessBody ==
  LET n == IF aargs.offset_imm # 0 THEN 2 ELSE 1
  IN  SubSeq(acode, n + 1, Len(acode))
AccessOp ==
  CASE aargs.type \in {"kI32Load8U", "kI64Load8U"} -> "lbu"
    [] aargs.type \in {"kI32Load16U", "kI64Load16U"} -> "lhu"
    [] aargs.type \in {"kI32Load", "kI64Load32U", "kI64Load"} -> "lw"
    [] aargs.type \in {"kI32Store8", "kI64Store8"} -> "sb"
    [] aargs.type \in {"kI32Store16", "kI64Store16"} -> "sh"
    [] OTHER -> "sw"
AccessOps == IF aargs.type \in {"kI64Load", "kI64Store"}
             THEN <<AccessOp, AccessOp>> ELSE <<AccessOp>>

\* C16 as stated: in the emitted sequence every load or store is preceded
\* by a fence and followed by a fence.
C16_FenceBeforeAndAfter ==
  \A k \in 1..Len(acode) :
    acode[k].op \in LoadOps \cup StoreOps =>
      /\ \E j \in 1..(k - 1) : acode[j].op = "fence"
      /\ \E j \in (k + 1)..Len(acode) : acode[j].op = "fence"

\* C16, amended: an emitted AtomicLoad is fence rw,rw; the plain load (two
\* word loads for 64 bits); fence r,rw.  An emitted AtomicStore is fence
\* rw,w; the plain store (two word stores for 64 bits), and no fence follows
\* the store.
C16_LoadFencedStoreLeading ==
  acode # <<>> =>
    /\ aargs.kind = "load" =>
         /\ OpsOf(AccessBody) = <<"fence">> \o AccessOps \o <<"fence">>
         /\ AccessBody[1] = Fence("rw", "rw")
         /\ AccessBody[Len(AccessBody)] = Fence("r", "rw")
    /\ aargs.kind = "store" =>
         /\ OpsOf(AccessBody) = <<"fence">> \o AccessOps
         /\ AccessBody[1] = Fence("rw", "w")

\* C16 witness: a thread has completed a 64-bit AtomicStore: both words are
\* in memory and the thread is past the last instruction, a store.
C16_Witness ==
  /\ aargs.type = "kI64Store"
  /\ aargs.offset_imm = 0
  /\ ainit = Zero32
  /\ aiter["T1"] = 1
  /\ amem[AtomAddr(0)] = W(0, 258)
  /\ amem[AtomAddr(4)] = W(0, 772)
  /\ acode[Len(acode)].op = "sw"

----------------------------------------------------------------------------
(* The fixed frame slots and the spill area.                               *)

kInstanceOffset == 2 * kSystemPointerSize
kFeedbackVectorOffset == 3 * kSystemPointerSize
kTierupBudgetOffset == 4 * kSystemPointerSize
GetInstanceOperand == GetStackSlot(kInstanceOffset)

\* A faulty variant of StaticStackFrameSize: the spill area starts right
\* below the instance slot.
StaticStackFrameSizeInstanceOnly == kInstanceOffset

\* LiftoffAssembler::StaticStackFrameSize()
StaticStackFrameSize == kTierupBudgetOffset

\* LiftoffAssembler::SlotSizeForType and NeedsAlignment
SlotSizeForType(kind) == IF kind = "kS128" THEN 16 ELSE kStackSlotSize
NeedsAlignment(kind) == kind = "kS128"

\* The offset the register allocator gives the next spill slot, above the
\* slots handed out so far.
NextSpillOffset(kind, top_spill_offset) ==
  LET offset == top_spill_offset + SlotSizeForType(kind)
      size == SlotSizeForType(kind)
  IN  IF NeedsAlignment(kind) THEN ((offset + size - 1) \div size) * size ELSE offset

\* LiftoffAssembler::SpillInstance and LoadInstanceFromFrame
SpillInstance(instance) == <<Sw(instance, GetInstanceOperand)>>
LoadInstanceFromFrame(dst) == <<Lw(dst, GetInstanceOperand)>>

\* The number of values spilled in one function.
MaxSpills == 2

InitStatic ==
  /\ mcode = <<>>
  /\ mphase = "start"
  /\ margs = [instance |-> Zero32, top |-> StaticStackFrameSize, spills |-> 0,
              offset |-> 0, kind |-> "none", dst |-> no_reg]
  /\ mpc = 1
  /\ mst \in {MachInit(p) : p \in MachPatterns}
  /\ OthersIdle("mach")

\* The function prologue spills the instance.
EmitSpillInstance ==
  /\ mphase = "start"
  /\ \E instance \in {kWasmInstanceRegister, "a1"} :
       /\ mcode' = SpillInstance(instance)
       /\ margs' = [margs EXCEPT !.instance = mst.gp[instance]]
  /\ mphase' = "running"
  /\ UNCHANGED <<mpc, mst>>
  /\ OthersUnchanged("mach")

\* A value of some kind is spilled to the next slot of the spill area.
EmitSpillNext ==
  /\ mphase = "running" /\ mpc > Len(mcode)
  /\ margs.dst = no_reg
  /\ margs.spills < MaxSpills
  /\ \E kind \in ValueKinds :
       \E reg \in RegsFor(kind) :
         LET offset == NextSpillOffset(kind, margs.top)
         IN  /\ mcode' = mcode \o Spill(offset, reg, kind)
             /\ margs' = [margs EXCEPT !.top = offset, !.offset = offset,
                                       !.kind = kind, !.spills = @ + 1]
  /\ UNCHANGED <<mphase, mpc, mst>>
  /\ OthersUnchanged("mach")

\* The instance is reloaded from the frame.
EmitLoadInstance ==
  /\ mphase = "running" /\ mpc > Len(mcode)
  /\ margs.dst = no_reg
  /\ \E dst \in {"a0", "a2"} :
       /\ mcode' = mcode \o LoadInstanceFromFrame(dst)
       /\ margs' = [margs EXCEPT !.dst = dst]
  /\ UNCHANGED <<mphase, mpc, mst>>
  /\ OthersUnchanged("mach")

NextStatic == EmitSpillInstance \/ EmitSpillNext \/ EmitLoadInstance \/ MachStep

SpecStatic == InitStatic /\ [][NextStatic]_vars

\* The bytes of the four fixed slots below fp, and of the instance slot.
FixedSlotBytes == (FramePointer[2] - 16)..(FramePointer[2] - 1)
InstanceSlotBytes == (FramePointer[2] - 8)..(FramePointer[2] - 5)
InstanceInFrame == BytesWord([k \in 1..4 |-> mst.mem[FramePointer[2] - 8 + k - 1]])

----------------------------------------------------------------------------
(* PrepareTailCall.                                                        *)

ra == "ra"

\* TurboAssembler::Push(src) and Pop(src1, src2): Pop takes src2 from the
\* lower address.
Push(src) == AddImm(sp, sp, 0 - kSystemPointerSize) \o <<Sw(src, MemOperand(sp, 0))>>
Pop(src1, src2) ==
  <<Lw(src2, MemOperand(sp, 0)), Lw(src1, MemOperand(sp, kSystemPointerSize))>>
  \o AddImm(sp, sp, 2 * kSystemPointerSize)

\* The copy loop of PrepareTailCall, over the slot indices in the given order.
ShiftFrame(order, stack_param_delta, scratch) ==
  LET Copy(i) == <<Lw(scratch, MemOperand(sp, i * 4)),
                   Sw(scratch, MemOperand(fp, (i - stack_param_delta) * 4))>>
      f[k \in 0..Len(order)] == IF k = 0 THEN <<>> ELSE f[k - 1] \o Copy(order[k])
  IN  f[Len(order)]

\* A faulty variant of the slot order: lowest slot first.
SlotOrderAscending(slot_count) == [k \in 1..slot_count |-> k - 1]

\* for (int i = slot_count - 1; i >= 0; --i)
SlotOrder(slot_count) == [k \in 1..slot_count |-> slot_count - k]

\* LiftoffAssembler::PrepareTailCall(num_callee_stack_params, stack_param_delta)
PrepareTailCall(num_callee_stack_params, stack_param_delta) ==
  LET scratch == Acquire(1)
      slot_count == num_callee_stack_params + 2
  IN  <<Lw(scratch, MemOperand(fp, 4))>> \o Push(scratch)
      \o <<Lw(scratch, MemOperand(fp, 0))>> \o Push(scratch)
      \o ShiftFrame(SlotOrder(slot_count), stack_param_delta, scratch)
      \o AddImm(sp, fp, (0 - stack_param_delta) * 4)
      \o Pop(ra, fp)

\* The largest number of stack parameters of the callee.
MaxParams == 2
TailFramePointer == FramePointer[2] - 48
TailFrameSizes == {24, 32}
TailDeltas == (0 - 2)..8
TailMem == [a \in DOMAIN StackMem |-> a % 256]
WordAt(mem, a) == BytesWord([k \in 1..4 |-> mem[a + k - 1]])

InitTail ==
  /\ mcode = <<>>
  /\ mphase = "start"
  /\ margs = [n |-> 0, delta |-> 0, sp |-> 0]
  /\ mpc = 1
  /\ \E size \in TailFrameSizes :
       mst = [MachInit(0) EXCEPT
                !.gp = [r \in MachGpRegs \cup {ra} |->
                          CASE r = fp -> W(0, TailFramePointer)
                            [] r = sp -> W(0, TailFramePointer - size)
                            [] OTHER -> Zero32],
                !.mem = TailMem]
  /\ OthersIdle("mach")

\* One call of PrepareTailCall whose destination is not below the stack
\* pointer after the two pushes.
EmitPrepareTailCall ==
  /\ mphase = "start"
  /\ \E n \in 0..MaxParams, delta \in TailDeltas :
       /\ TailFramePointer - 4 * delta >= mst.gp[sp][2] - 8
       /\ mcode' = PrepareTailCall(n, delta)
       /\ margs' = [n |-> n, delta |-> delta, sp |-> mst.gp[sp][2]]
  /\ mphase' = "running"
  /\ UNCHANGED <<mpc, mst>>
  /\ OthersUnchanged("mach")

NextTail == EmitPrepareTailCall \/ MachStep

SpecTail == InitTail /\ [][NextTail]_vars

\* Source word i of the frame being shifted, as it was on entry: the saved
\* fp, the return address, then the outgoing parameters from the top of the
\* stack.
TailSource(i) ==
  CASE i = 0 -> WordAt(TailMem, TailFramePointer)
    [] i = 1 -> WordAt(TailMem, TailFramePointer + 4)
    [] OTHER -> WordAt(TailMem, margs.sp + 4 * (i - 2))
TailDone == mphase = "running" /\ mpc > Len(mcode)

\* C18: when PrepareTailCall(n, delta) has run, the n+2 words at
\* fp + 4*(i - delta), i = 0..n+1 (fp as on entry), are the saved fp, the
\* return address and the n parameters as they were on entry, ra and fp hold
\* the return address and saved fp that were at fp+4 and fp+0, and sp is
\* just above the two popped words of the shifted frame.
C18_TailCallShift ==
  /\ mphase # "trap"
  /\ TailDone =>
       /\ \A i \in 0..(margs.n + 1) :
            WordAt(mst.mem, TailFramePointer + 4 * (i - margs.delta)) = TailSource(i)
       /\ mst.gp[ra] = WordAt(TailMem, TailFramePointer + 4)
       /\ mst.gp[fp] = WordAt(TailMem, TailFramePointer)
       /\ mst.gp[sp] = W(0, TailFramePointer - 4 * margs.delta + 8)

\* C18 witness: a shift of four words by one word, source and destination
\* overlapping, has completed.
C18_Witness ==
  /\ TailDone
  /\ margs.n = 2
  /\ TailFramePointer - 4 * margs.delta = margs.sp - 8 + 4
  /\ WordAt(mst.mem, margs.sp - 8) # WordAt(TailMem, margs.sp - 8)

----------------------------------------------------------------------------
(* LiftoffStackSlots::Construct.                                           *)

kDoubleSize == 8
kSimd128Size == 16

\* TurboAssembler::AllocateStackSpace(bytes) and Push(src1, src2)
AllocateStackSpace(bytes) == IF bytes = 0 THEN <<>> ELSE AddImm(sp, sp, 0 - bytes)
Push2(src1, src2) ==
  AddImm(sp, sp, 0 - 2 * kSystemPointerSize)
  \o <<Sw(src1, MemOperand(sp, kSystemPointerSize)), Sw(src2, MemOperand(sp, 0))>>

\* liftoff::push(assm, reg, kind)
push(reg, kind) ==
  CASE kind \in {"kI32", "kOptRef", "kRef", "kRtt"} ->
         <<Ins("addi", sp, sp, no_reg, 0 - kSystemPointerSize), Sw(reg.gp, MemOperand(sp, 0))>>
    [] kind = "kI64" -> Push2(reg.high, reg.low)
    [] kind = "kF32" ->
         <<Ins("addi", sp, sp, no_reg, 0 - kSystemPointerSize), StoreFloat(reg.fp, MemOperand(sp, 0))>>
    [] kind = "kF64" ->
         <<Ins("addi", sp, sp, no_reg, 0 - kDoubleSize), StoreDouble(reg.fp, MemOperand(sp, 0))>>
    [] OTHER -> Unreachable

\* LiftoffStackSlots::SlotSizeInBytes(slot)
SlotSizeInBytes(slot) ==
  IF slot.kind = "kS128" THEN kSimd128Size
  ELSE IF slot.kind = "kF64" THEN kDoubleSize ELSE kSystemPointerSize

\* The body of Construct's loop for one slot.
ConstructSlot(slot, stack_decrement) ==
  CASE slot.loc = "kStack" ->
         IF slot.kind # "kS128"
         THEN AllocateStackSpace(stack_decrement - kSystemPointerSize)
              \o <<Lw(kScratchReg, GetStackSlot(slot.src_offset))>>
              \o Push(kScratchReg)
         ELSE AllocateStackSpace(stack_decrement - kSimd128Size)
              \o <<Lw(kScratchReg, GetStackSlot(slot.src_offset - 8))>>
              \o Push(kScratchReg)
              \o <<Lw(kScratchReg, GetStackSlot(slot.src_offset))>>
              \o Push(kScratchReg)
    [] slot.loc = "kRegister" ->
         AllocateStackSpace(stack_decrement - SlotSizeInBytes(slot))
         \o push(slot.reg, slot.kind)
    [] slot.loc = "kIntConst" ->
         AllocateStackSpace(stack_decrement - kSystemPointerSize)
         \o <<Ins("li", kScratchReg, no_reg, no_reg, slot.i32_const)>>
         \o Push(kScratchReg)

\* LiftoffStackSlots::Construct(param_slots) on slots in push order: the code
\* of the first k slots, for k = 0..Len(slots).
ConstructUpTo(param_slots, slots) ==
  LET last(k) == IF k = 1 THEN param_slots ELSE slots[k - 1].dst_slot
      f[k \in 0..Len(slots)] ==
        IF k = 0 THEN <<>>
        ELSE f[k - 1] \o ConstructSlot(slots[k],
                           (last(k) - slots[k].dst_slot) * kSystemPointerSize)
  IN  f
Construct(param_slots, slots) == ConstructUpTo(param_slots, slots)[Len(slots)]

\* The outgoing values: where each comes from and how many bytes it has at
\* its destination.
Slot(loc, kind, reg, src_offset, i32_const) ==
  [loc |-> loc, kind |-> kind, reg |-> reg, src_offset |-> src_offset,
   i32_const |-> i32_const, dst_slot |-> 0]
SlotSources ==
  {Slot("kRegister", "kI32", GpReg("a0"), 0, 0),
   Slot("kRegister", "kF32", FpReg("fa0"), 0, 0),
   Slot("kRegister", "kF64", FpReg("fa1"), 0, 0),
   Slot("kStack", "kI32", GpReg(no_reg), 24, 0),
   Slot("kStack", "kF64", GpReg(no_reg), 24, 0),
   Slot("kStack", "kS128", GpReg(no_reg), 48, 0),
   Slot("kIntConst", "kI32", GpReg(no_reg), 0, 7)}
\* The value of a source, as bytes.
SlotValue(slot, st) ==
  CASE slot.loc = "kRegister" /\ slot.kind = "kI32" -> WordBytes(st.gp[slot.reg.gp])
    [] slot.loc = "kRegister" /\ slot.kind = "kF32" -> SubSeq(st.fr[slot.reg.fp], 1, 4)
    [] slot.loc = "kRegister" /\ slot.kind = "kF64" -> st.fr[slot.reg.fp]
    [] slot.loc = "kStack" ->
         LoadBytes(st.mem, FramePointer[2] - slot.src_offset, SlotSizeInBytes(slot))
    [] slot.loc = "kIntConst" -> WordBytes(FromInt(slot.i32_const))
SlotWords(slot) == SlotSizeInBytes(slot) \div kSystemPointerSize

InitConstruct ==
  /\ mcode = <<>>
  /\ mphase = "start"
  /\ margs = [param_slots |-> 0, slots |-> <<>>, ends |-> <<>>, values |-> <<>>]
  /\ mpc = 1
  /\ \E p \in MachPatterns :
       mst = [MachInit(p) EXCEPT !.gp[sp] = PushPopStackPointer, !.mem = TailMem]
  /\ OthersIdle("mach")

\* One call of Construct for one or two outgoing values, the first one
\* optionally below a padding slot.
EmitConstruct ==
  /\ mphase = "start"
  /\ \E s1 \in SlotSources, s2 \in SlotSources, count \in 1..2, gap \in 0..1 :
       LET param_slots == gap + SlotWords(s1) + (IF count = 2 THEN SlotWords(s2) ELSE 0)
           d1 == param_slots - gap - SlotWords(s1)
           first == [s1 EXCEPT !.dst_slot = d1]
           slots == IF count = 2
                    THEN <<first, [s2 EXCEPT !.dst_slot = d1 - SlotWords(s2)]>>
                    ELSE <<first>>
           upto == ConstructUpTo(param_slots, slots)
       IN  /\ count = 1 => s2 = s1
           /\ mcode' = Construct(param_slots, slots)
           /\ margs' = [param_slots |-> param_slots, slots |-> slots,
                        ends |-> [k \in 1..Len(slots) |-> Len(upto[k])],
                        values |-> [k \in 1..Len(slots) |-> SlotValue(slots[k], mst)]]
  /\ mphase' = "running"
  /\ UNCHANGED <<mpc, mst>>
  /\ OthersUnchanged("mach")

NextConstruct == EmitConstruct \/ MachStep

SpecConstruct == InitConstruct /\ [][NextConstruct]_vars

\* C19: the values are processed in descending destination-slot order, and
\* when the code of a value has run, sp has been lowered to that value's
\* destination slot, (param_slots - dst_slot) * kSystemPointerSize below the
\* stack pointer on entry, and the complete value is stored there.
C19_ConstructInPlace ==
  /\ \A k \in 2..Len(margs.slots) : margs.slots[k].dst_slot < margs.slots[k - 1].dst_slot
  /\ \A k \in 1..Len(margs.slots) :
       (mphase = "running" /\ mpc = margs.ends[k] + 1) =>
         LET dst == PushPopStackPointer[2]
                    - (margs.param_slots - margs.slots[k].dst_slot) * kSystemPointerSize
         IN  /\ mst.gp[sp] = W(0, dst)
             /\ LoadBytes(mst.mem, dst, Len(margs.values[k])) = margs.values[k]

----------------------------------------------------------------------------
(* PushAllRegistersAndIterateStack (heap/base/asm/riscv32).                *)

CalleeSaved == <<"s0", "s1", "s2", "s3", "s4", "s5", "s6", "s7", "s8", "s9", "s10", "s11">>

\* addi sp, sp, -56; sw ra, 52(sp); sw sp, 48(sp); sw s11, 44(sp) ... sw s0, 0(sp)
PushAllSave ==
  <<Ins("addi", sp, sp, no_reg, 0 - 56), Sw(ra, MemOperand(sp, 52)), Sw(sp, MemOperand(sp, 48))>>
  \o [k \in 1..12 |-> Sw(CalleeSaved[13 - k], MemOperand(sp, 4 * (12 - k)))]

\* mv s0, sp; mv a3, a2; mv a2, sp; jalr a3
PushAllCall ==
  <<Ins("mv", "s0", sp, no_reg, 0), Ins("mv", "a3", "a2", no_reg, 0),
    Ins("mv", "a2", sp, no_reg, 0), Ins("jalr", ra, "a3", no_reg, 0)>>

\* A faulty variant of PushAllRestore: the frame pointer is not reloaded.
PushAllRestoreNoFp ==
  <<Lw(ra, MemOperand(sp, 52)), Ins("addi", sp, sp, no_reg, 56),
    Ins("jr", no_reg, ra, no_reg, 0)>>

\* lw ra, 52(sp); lw s0, 0(sp); addi sp, sp, 56; jr ra
PushAllRestore ==
  <<Lw(ra, MemOperand(sp, 52)), Lw("s0", MemOperand(sp, 0)),
    Ins("addi", sp, sp, no_reg, 56), Ins("jr", no_reg, ra, no_reg, 0)>>

PushAllRegistersAndIterateStack == PushAllSave \o PushAllCall \o PushAllRestore

IterateStackCallback == W(2, 64)
PushAllEntryRa == W(3, 4660)
NoCall == [callee |-> Zero32, a0 |-> Zero32, a1 |-> Zero32, a2 |-> Zero32,
           sp |-> Zero32, mem |-> StackMem]

InitPushAll ==
  /\ mcode = <<>>
  /\ mphase = "start"
  /\ mpc = 1
  /\ \E p \in MachPatterns, size \in {48, 64}, stack \in {W(0, 7), W(5, 9)} :
       LET gp0 == [r \in {ra, sp, zero_reg, "a0", "a1", "a2", "a3", "a4", "t3", "t5"}
                          \cup {CalleeSaved[k] : k \in 1..12} |->
                     CASE r = ra -> PushAllEntryRa
                       [] r = sp -> W(0, FramePointer[2] - size)
                       [] r = zero_reg -> Zero32
                       [] r = "a0" -> stack
                       [] r = "a2" -> IterateStackCallback
                       [] r \in {CalleeSaved[k] : k \in 1..12} ->
                            W(p + 1, CHOOSE k \in 1..12 : CalleeSaved[k] = r)
                       [] OTHER -> BytesWord(PatternBytes(r, p, 4))]
       IN  /\ mst = [gp |-> gp0, fr |-> MachInit(p).fr, vr |-> MachInit(p).vr,
                     mem |-> StackMem, sew |-> 8, trap |-> FALSE,
                     call |-> NoCall, ret |-> Zero32]
           /\ margs = [gp |-> gp0]
  /\ OthersIdle("mach")

\* The function is called.
EnterPushAll ==
  /\ mphase = "start"
  /\ mcode' = PushAllRegistersAndIterateStack
  /\ mphase' = "running"
  /\ UNCHANGED <<margs, mpc, mst>>
  /\ OthersUnchanged("mach")

NextPushAll == EnterPushAll \/ MachStep

SpecPushAll == InitPushAll /\ [][NextPushAll]_vars

PushAllCalled == mphase = "running" /\ mst.call # NoCall
PushAllDone == mphase = "running" /\ mpc > Len(mcode)

\* C20: the callback is the function passed in a2 and is called with a0 and
\* a1 as on entry and a2 = the new sp, 56 bytes below the entry sp, where ra
\* and s0..s11 as on entry are stored; when the function returns, it returns
\* to the entry ra, and ra, s0 and sp hold their entry values.
C20_PushAllRegisters ==
  /\ mphase # "trap"
  /\ PushAllCalled =>
       /\ mst.call.callee = margs.gp["a2"]
       /\ mst.call.a0 = margs.gp["a0"]
       /\ mst.call.a1 = margs.gp["a1"]
       /\ mst.call.sp = Sub32(margs.gp[sp], FromInt(56))
       /\ mst.call.a2 = mst.call.sp
       /\ WordAt(mst.call.mem, mst.call.sp[2] + 52) = margs.gp[ra]
       /\ \A k \in 1..12 :
            WordAt(mst.call.mem, mst.call.sp[2] + 4 * (k - 1)) = margs.gp[CalleeSaved[k]]
  /\ PushAllDone =>
       /\ mst.ret = margs.gp[ra]
       /\ mst.gp[ra] = margs.gp[ra]
       /\ mst.gp["s0"] = margs.gp["s0"]
       /\ mst.gp[sp] = margs.gp[sp]

\* C20 witness: the function has returned after a callback that overwrote
\* ra and the argument registers.
C20_Witness ==
  /\ PushAllDone
  /\ mst.gp["a0"] = Garbage
  /\ mst.call.a2 = Sub32(margs.gp[sp], FromInt(56))
  /\ mst.ret = PushAllEntryRa

----------------------------------------------------------------------------
(* The 64-bit atomic read-modify-write (StoreType::kI64Store): one thread,  *)
(* one operation, every operand in a register pair.  A 64-bit value is     *)
(* <<low word, high word>>, in memory at the address and at the address    *)
(* plus 4.                                                                  *)

Atomic64Cache == CacheRegs \cup {"a5", "a6", "a7"}
Atomic64Regs == Atomic64Cache \cup ScratchRegs \cup {zero_reg}
Atomic64Value == PairReg("a2", "a3")
Atomic64Result == PairReg("a4", "a5")
Atomic64Expected == PairReg("a6", "a7")
Atomic64Olds == {<<AllOnes, Zero32>>, <<W(0, 5), W(0, 7)>>}
Atomic64Operands == {<<One32, Zero32>>, <<W(0, 5), W(0, 9)>>}
Atomic64Ops == BinopKinds \cup {"kCompareExchange"}

Add64(a, b) ==
  LET low == Add32(a[1], b[1])
      carry == IF Ult32(low, a[1]) THEN One32 ELSE Zero32
  IN  <<low, Add32(Add32(a[2], b[2]), carry)>>

Sub64(a, b) ==
  LET borrow == IF Ult32(a[1], b[1]) THEN One32 ELSE Zero32
  IN  <<Sub32(a[1], b[1]), Sub32(Sub32(a[2], b[2]), borrow)>>

\* The value an atomic operation on 64 bits leaves in memory.
Op64(op, old, v, expected) ==
  CASE op = "kAdd" -> Add64(old, v)
    [] op = "kSub" -> Sub64(old, v)
    [] op = "kAnd" -> <<And32(old[1], v[1]), And32(old[2], v[2])>>
    [] op = "kOr"  -> <<Or32(old[1], v[1]), Or32(old[2], v[2])>>
    [] op = "kXor" -> <<Xor32(old[1], v[1]), Xor32(old[2], v[2])>>
    [] op = "kExchange" -> v
    [] OTHER -> IF old = expected THEN v ELSE old

\* The code one call emits.  value.gp(), result.gp(), expected.gp() and
\* new_value.gp() are taken of register pairs: ubv, ubr and ube are what
\* they return.  The result pair of the compare-exchange is in no pinned
\* register, so its result_reg is result.gp().
Atomic64Code(op, ubv, ubr, ube, store_result, fresh) ==
  IF op = "kCompareExchange"
  THEN AtomicCompareExchange("a0", "a1", 0, ube, ubv, ubr, "kI64Store", ubr)
  ELSE AtomicBinop("a0", "a1", 0, ubv, ubr, "kI64Store", op, store_result, fresh)

Atomic64Inputs(old, v, e) ==
  [x \in Atomic64Regs |->
     CASE x = "a0" -> AtomBase
       [] x = "a1" -> AtomIndex
       [] x = Atomic64Value.low -> v[1]
       [] x = Atomic64Value.high -> v[2]
       [] x = Atomic64Expected.low -> e[1]
       [] x = Atomic64Expected.high -> e[2]
       [] OTHER -> Zero32]

InitAtomic64 ==
  /\ ainit = Zero32
  /\ \E op \in Atomic64Ops, ubv \in UbChoices(Atomic64Value),
        ubr \in UbChoices(Atomic64Result), ube \in UbChoices(Atomic64Expected),
        store_result \in {"a6"}, fresh \in {"a7", no_reg},
        old \in Atomic64Olds, v \in Atomic64Operands, e \in Atomic64Olds :
       LET fatal == ubv = no_reg \/ ubr = no_reg
                    \/ (op = "kCompareExchange" /\ ube = no_reg)
           aliased == ubr = ubv \/ ubr = "a0" \/ ubr = "a1"
       IN  /\ op # "kCompareExchange" => ube = no_reg /\ e = old
           /\ op = "kCompareExchange" \/ fatal => fresh = no_reg
           /\ op # "kCompareExchange" /\ ~fatal => (fresh = no_reg <=> ~aliased)
           /\ aargs = [op |-> op, value |-> v, old |-> old, expected |-> e,
                       fatal |-> fatal, offset_imm |-> 0]
           /\ acode = IF fatal THEN <<>>
                      ELSE Atomic64Code(op, ubv, ubr, ube, store_result, fresh)
           /\ amem = (AtomAddr(0) :> old[1]) @@ (AtomAddr(4) :> old[2])
           /\ ain = [t \in Threads |-> Atomic64Inputs(old, v, e)]
  /\ ares = [t \in Threads |-> NoAddr]
  /\ areg = [t \in Threads |-> [x \in Atomic64Regs |-> Zero32]]
  /\ apc = [t \in Threads |-> 0]
  /\ aiter = [t \in Threads |-> IF t = "T1" THEN MaxIter - 1 ELSE MaxIter]
  /\ asucc = 0
  /\ OthersIdle("atom")

\* lr_d and sc_d are RV64 instructions.  A RV32 hart raises an
\* illegal-instruction exception for them (wide = 0); an implementation
\* that accepts the encoding acts on its 32-bit registers, as the word
\* form does (wide = 1).
WordForm(i, wide) ==
  IF wide = 1 /\ i.op = "lr_d" THEN [i EXCEPT !.op = "lr_w"]
  ELSE IF wide = 1 /\ i.op = "sc_d"
       THEN Ins("sc_w", i.rd, i.rs2, i.rs1, 0)
       ELSE i

\* The hart executes the instruction at its program counter.
AStep64(t) ==
  /\ apc[t] \in 1..Len(acode)
  /\ \E wide \in {0, 1} :
       LET n == HartExec(WordForm(acode[apc[t]], wide), t, areg[t], apc[t],
                         amem, ares)
       IN  /\ areg' = [areg EXCEPT ![t] = n.r]
           /\ apc' = [apc EXCEPT ![t] = n.pc]
           /\ amem' = n.mem
           /\ ares' = n.res
           /\ asucc' = asucc + n.sc
  /\ UNCHANGED <<acode, ain, ainit, aiter, aargs>>
  /\ OthersUnchanged("atom")

NextAtomic64 == \E t \in Threads : ABegin(t) \/ AStep64(t) \/ AFinish(t)

SpecAtomic64 == InitAtomic64 /\ [][NextAtomic64]_vars

Atomic64Done == aiter["T1"] = MaxIter /\ apc["T1"] = 0 /\ ~aargs.fatal
Atomic64Memory == <<amem[AtomAddr(0)], amem[AtomAddr(4)]>>
Atomic64ResultValue ==
  <<areg["T1"][Atomic64Result.low], areg["T1"][Atomic64Result.high]>>

\* C21: a 64-bit atomic read-modify-write (add, sub, and, or, xor, exchange,
\* compare-exchange) runs to completion, leaves op(old, operand) computed on
\* all 64 bits in the two words of the location, and leaves the old 64-bit
\* value in the result register pair.
C21_Atomic64Full ==
  /\ apc["T1"] # TrapPc
  /\ Atomic64Done =>
       /\ Atomic64Memory = Op64(aargs.op, aargs.old, aargs.value, aargs.expected)
       /\ Atomic64ResultValue = aargs.old

----------------------------------------------------------------------------
(* A 64-bit AtomicStore on one hart and a 64-bit AtomicLoad of the same     *)
(* address on another.  acode holds the code of each hart: T1 stores the   *)
(* pair (a2, a3), T2 loads into the pair (a2, a3) of its own registers.    *)

Access64Pair == PairReg("a2", "a3")
Access64Old == <<W(0, 258), W(0, 772)>>
Access64News == {<<W(1, 4369), W(1, 8738)>>, <<W(0, 258), AllOnes>>}

InitAccess64 ==
  /\ ainit = Zero32
  /\ \E imm \in AtomImms, offset_reg \in {"a1"}, new \in Access64News :
       /\ aargs = [offset_imm |-> imm, offset_reg |-> offset_reg,
                   target |-> AtomAddr(imm), new |-> new]
       /\ acode = [t \in Threads |->
                     IF t = "T1"
                     THEN AtomicStore("a0", offset_reg, imm, Access64Pair,
                                      "kI64Store", no_reg)
                     ELSE AtomicLoad(Access64Pair, "a0", offset_reg, imm,
                                     "kI64Load", no_reg)]
       /\ amem = (aargs.target :> Access64Old[1])
                 @@ (Add32(aargs.target, FromInt(4)) :> Access64Old[2])
  /\ ain = [t \in Threads |->
              [x \in GpRegs |->
                 CASE x = "a0" -> AtomBase
                   [] x = "a1" -> AtomIndex
                   [] x = "a2" /\ t = "T1" -> aargs.new[1]
                   [] x = "a3" /\ t = "T1" -> aargs.new[2]
                   [] OTHER -> Zero32]]
  /\ ares = [t \in Threads |-> NoAddr]
  /\ areg = ain
  /\ apc = [t \in Threads |-> 1]
  /\ aiter = [t \in Threads |-> 0]
  /\ asucc = 0
  /\ OthersIdle("atom")

\* A hart executes the instruction at its program counter; the harts
\* interleave instruction by instruction.
Access64Step(t) ==
  /\ apc[t] \in 1..Len(acode[t])
  /\ LET n == HartExec(acode[t][apc[t]], t, areg[t], apc[t], amem, ares)
     IN  /\ areg' = [areg EXCEPT ![t] = n.r]
         /\ apc' = [apc EXCEPT ![t] = n.pc]
         /\ amem' = n.mem
         /\ ares' = n.res
  /\ UNCHANGED <<acode, ain, ainit, aiter, asucc, aargs>>
  /\ OthersUnchanged("atom")

NextAccess64 == \E t \in Threads : Access64Step(t)

SpecAccess64 == InitAccess64 /\ [][NextAccess64]_vars

Access64Loaded == apc["T2"] = Len(acode["T2"]) + 1
Access64Value == <<areg["T2"][Access64Pair.low], areg["T2"][Access64Pair.high]>>

\* C22: a 64-bit AtomicLoad that runs concurrently with a 64-bit AtomicStore
\* to the same address returns the complete old or the complete new 64-bit
\* value, under every interleaving of the two harts.
C22_NoTornRead ==
  Access64Loaded => Access64Value \in {Access64Old, aargs.new}

----------------------------------------------------------------------------
(* Memory accesses: Load and Store of a word and of a full 64-bit value.    *)

\* I32_BINOP(add, add); emit_ptrsize_add is emit_i32_add on this target.
emit_i32_add(dst, lhs, rhs) == Ins("add", dst, lhs, rhs, 0)

\* liftoff::GetMemOp: the code it emits and the operand it returns.
GetMemOp(addr, offset, offset_imm, scratch) ==
  IF offset # no_reg
  THEN [code |-> <<emit_i32_add(scratch, addr, offset)>>,
        op |-> MemOperand(scratch, offset_imm)]
  ELSE [code |-> <<>>, op |-> MemOperand(addr, offset_imm)]

\* LiftoffAssembler::Load, the word and doubleword cases of its switch;
\* scratch is the register GetUnusedRegister(kGpReg, pinned) returned.
Load(dst, src_addr, offset_reg, offset_imm, type, scratch, ub) ==
  LET src_op == GetMemOp(src_addr, offset_reg, offset_imm, scratch)
      src_op_low == GetMemOp(src_addr, offset_reg, kLowWordOffset, scratch)
      src_op_upper == GetMemOp(src_addr, offset_reg, kHighWordOffset, scratch)
  IN  src_op.code \o
      CASE type = "kI64Load32U" ->
             <<Lw(dst.low, src_op.op), Ins("mv", dst.high, zero_reg, no_reg, 0)>>
        [] type = "kI32Load" -> <<Lw(GpOf(dst, ub), src_op.op)>>
        [] type = "kI64Load" ->
             src_op_low.code \o src_op_upper.code \o
             <<Lw(dst.low, src_op_low.op), Lw(dst.high, src_op_upper.op)>>
        [] OTHER -> Unreachable

\* LiftoffAssembler::Store, the word and doubleword cases of its switch;
\* unused is the register GetUnusedRegister(kGpReg, pinned) returned.
Store(dst_addr, offset_reg, offset_imm, src, type, unused, ub) ==
  LET dst_op == IF offset_reg # no_reg THEN MemOperand(unused, offset_imm)
                ELSE MemOperand(dst_addr, offset_imm)
      dst_op_lower == MemOperand(dst_op.rm, offset_imm + kLowWordOffset)
      dst_op_upper == MemOperand(dst_op.rm, offset_imm + kHighWordOffset)
  IN  (IF offset_reg # no_reg
       THEN <<emit_i32_add(unused, dst_addr, offset_reg)>> ELSE <<>>)
      \o
      CASE type \in {"kI32Store", "kI64Store32"} -> <<Sw(GpOf(src, ub), dst_op)>>
        [] type = "kI64Store" ->
             <<Sw(src.low, dst_op_lower), Sw(src.high, dst_op_upper)>>
        [] OTHER -> Unreachable

\* A full 64-bit store followed by a full 64-bit load with the same
\* address operands: base in a0, index (when there is one) in a1.
MemBase == Add32(StackPointer, FromInt(16))
MemIndex == FromInt(32)
MemImms == {0, 8, 24}
MemSrc == PairReg("a2", "a3")
MemDsts == {PairReg("a2", "a3"), PairReg("a3", "a4")}
MemEffective(args) ==
  ToInt(MemBase) + (IF args.offset_reg = no_reg THEN 0 ELSE ToInt(MemIndex))
  + args.offset_imm

InitMem ==
  /\ mcode = <<>>
  /\ mphase = "start"
  /\ margs = [offset_reg |-> no_reg, offset_imm |-> 0, dst |-> MemSrc,
              value |-> <<>>, stage |-> "start"]
  /\ mpc = 1
  /\ \E p \in MachPatterns :
       mst = [MachInit(p) EXCEPT !.gp["a0"] = MemBase, !.gp["a1"] = MemIndex]
  /\ OthersIdle("mach")

\* Store(a0, offset_reg, offset_imm, (a2, a3), kI64Store) is emitted.
EmitStore ==
  /\ mphase = "start"
  /\ \E offset_reg \in {"a1", no_reg}, offset_imm \in MemImms,
        unused \in CacheRegs \ {"a0", "a1", "a2", "a3"} :
       /\ margs' = [margs EXCEPT !.offset_reg = offset_reg,
                                 !.offset_imm = offset_imm,
                                 !.value = RegValue("kI64", MemSrc, mst),
                                 !.stage = "store"]
       /\ mcode' = Store("a0", offset_reg, offset_imm, MemSrc, "kI64Store",
                         unused, no_reg)
  /\ mphase' = "running"
  /\ UNCHANGED <<mpc, mst>>
  /\ OthersUnchanged("mach")

\* Once the store has run, Load(dst, a0, offset_reg, offset_imm, kI64Load)
\* is emitted and run.
EmitLoad ==
  /\ mphase = "running"
  /\ margs.stage = "store"
  /\ mpc = Len(mcode) + 1
  /\ \E dst \in MemDsts :
       \E scratch \in CacheRegs \ ({"a0", "a1"} \cup PairRegs(dst)) :
         /\ margs' = [margs EXCEPT !.dst = dst, !.stage = "load"]
         /\ mcode' = Load(dst, "a0", margs.offset_reg, margs.offset_imm,
                          "kI64Load", scratch, no_reg)
  /\ mpc' = 1
  /\ UNCHANGED <<mphase, mst>>
  /\ OthersUnchanged("mach")

NextMem == EmitStore \/ EmitLoad \/ MachStep

SpecMem == InitMem /\ [][NextMem]_vars

MemLoaded == mphase = "running" /\ margs.stage = "load" /\ mpc = Len(mcode) + 1

\* C23: a full 64-bit Load reads its low word at the effective address
\* base + index + immediate plus kLowWordOffset and its high word at that
\* address plus kHighWordOffset, for every base, optional index and
\* immediate (zero or not); so a 64-bit Store followed by a 64-bit Load with
\* the same operands returns the stored value.
C23_StoreLoadRoundTrip ==
  MemLoaded =>
    /\ mst.gp[margs.dst.low] =
         BytesWord(LoadBytes(mst.mem, MemEffective(margs) + kLowWordOffset, 4))
    /\ mst.gp[margs.dst.high] =
         BytesWord(LoadBytes(mst.mem, MemEffective(margs) + kHighWordOffset, 4))
    /\ RegValue("kI64", margs.dst, mst) = margs.value

----------------------------------------------------------------------------
(* Sign extension of the low 8, 16 or 32 bits of an i64.                    *)

emit_i32_signextend_i8(dst, src) ==
  <<Ins("slli", dst, src, no_reg, 32 - 8), Ins("srai", dst, dst, no_reg, 32 - 8)>>

emit_i32_signextend_i16(dst, src) ==
  <<Ins("slli", dst, src, no_reg, 32 - 16), Ins("srai", dst, dst, no_reg, 32 - 16)>>

emit_i64_signextend_i8(dst, src) ==
  emit_i32_signextend_i8(dst.low, src.low)
  \o <<Ins("srai", dst.high, src.low, no_reg, 31)>>

emit_i64_signextend_i16(dst, src) ==
  emit_i32_signextend_i16(dst.low, src.low)
  \o <<Ins("srai", dst.high, src.low, no_reg, 31)>>

emit_i64_signextend_i32(dst, src) ==
  <<Ins("mv", dst.low, src.low, no_reg, 0),
    Ins("srai", dst.high, src.low, no_reg, 31)>>

SignExtWidths == {8, 16, 32}
SignExtSrc == PairReg("a0", "a1")
\* dst identical to src, disjoint from it, and sharing one register with it.
SignExtDsts == {PairReg("a0", "a1"), PairReg("a2", "a3"), PairReg("a1", "a2"),
                PairReg("a2", "a0"), PairReg("a0", "a2")}
\* Low words whose bits 7, 15 and 31 differ from one another.
SignExtLows == {W(0, 127), W(0, 128), W(0, 32767), W(0, 32768), W(0, 65535),
                W(Half \div 2, 0), W(Half - 1, 65408), W(Half \div 2, 255),
                W(Half - 1, 32767), Zero32}
SignExtHighs == {Zero32, W(Half - 1, Half - 1), W(4660, 22136)}

InitSignExt ==
  /\ mcode = <<>>
  /\ mphase = "start"
  /\ margs = [width |-> 8, dst |-> SignExtSrc, value |-> <<>>]
  /\ mpc = 1
  /\ \E low \in SignExtLows, high \in SignExtHighs :
       mst = [MachInit(0) EXCEPT !.gp["a0"] = low, !.gp["a1"] = high]
  /\ OthersIdle("mach")

EmitSignExtend ==
  /\ mphase = "start"
  /\ \E width \in SignExtWidths, dst \in SignExtDsts :
       /\ margs' = [margs EXCEPT !.width = width, !.dst = dst,
                                 !.value = RegValue("kI64", SignExtSrc, mst)]
       /\ mcode' = CASE width = 8 -> emit_i64_signextend_i8(dst, SignExtSrc)
                     [] width = 16 -> emit_i64_signextend_i16(dst, SignExtSrc)
                     [] OTHER -> emit_i64_signextend_i32(dst, SignExtSrc)
  /\ mphase' = "running"
  /\ UNCHANGED <<mpc, mst>>
  /\ OthersUnchanged("mach")

NextSignExt == EmitSignExtend \/ MachStep

SpecSignExt == InitSignExt /\ [][NextSignExt]_vars

SignExtDone == mphase = "running" /\ mpc = Len(mcode) + 1

\* The 64-bit sign extension of the low width bits of the value v, as
\* <<low word, high word>>.
SignExtended(v, width) ==
  LET b == SignExtend(SubSeq(WordBytes(v[1]), 1, width \div 8), 8)
  IN  <<BytesWord(SubSeq(b, 1, 4)), BytesWord(SubSeq(b, 5, 8))>>

\* C24: emit_i64_signextend_i8, _i16 and _i32 leave in dst the 64-bit sign
\* extension of the low 8, 16 or 32 bits of src (the low word the
\* sign-extended value, the high word 32 copies of its sign bit), for every
\* input and every choice of the dst and src registers.
C24_SignExtend64 ==
  SignExtDone =>
    RegValue("kI64", margs.dst, mst) = SignExtended(margs.value, margs.width)

----------------------------------------------------------------------------
(* i32 division and remainder with their trap checks.                       *)

kMinInt == W(Half \div 2, 0)
MinusOne == W(Half - 1, Half - 1)

\* TurboAssembler::Branch(label, cond, rs, Operand(rt)) to a label outside
\* the sequence, and TurboAssembler::CompareI with an immediate operand.
Branch(label, cond, rs, rt) ==
  Ins("Branch", no_reg, rs, rt, [label |-> label, cond |-> cond])
CompareImm(rd, rs, value, cond) ==
  Ins("CompareImm", rd, rs, no_reg, [value |-> value, cond |-> cond])

\* A faulty variant of emit_i32_divs: the two comparisons test for equality,
\* so the sum is zero when neither operand has its critical value.
emit_i32_divs_eq(dst, lhs, rhs, trap_div_by_zero, trap_div_unrepresentable) ==
  <<Branch(trap_div_by_zero, "eq", rhs, zero_reg),
    CompareImm(kScratchReg, lhs, kMinInt, "eq"),
    CompareImm(kScratchReg2, rhs, MinusOne, "eq"),
    Ins("add", kScratchReg, kScratchReg, kScratchReg2, 0),
    Branch(trap_div_unrepresentable, "eq", kScratchReg, zero_reg),
    Ins("div", dst, lhs, rhs, 0)>>

emit_i32_divs(dst, lhs, rhs, trap_div_by_zero, trap_div_unrepresentable) ==
  <<Branch(trap_div_by_zero, "eq", rhs, zero_reg),
    CompareImm(kScratchReg, lhs, kMinInt, "ne"),
    CompareImm(kScratchReg2, rhs, MinusOne, "ne"),
    Ins("add", kScratchReg, kScratchReg, kScratchReg2, 0),
    Branch(trap_div_unrepresentable, "eq", kScratchReg, zero_reg),
    Ins("div", dst, lhs, rhs, 0)>>

emit_i32_divu(dst, lhs, rhs, trap_div_by_zero) ==
  <<Branch(trap_div_by_zero, "eq", rhs, zero_reg), Ins("divu", dst, lhs, rhs, 0)>>

emit_i32_rems(dst, lhs, rhs, trap_div_by_zero) ==
  <<Branch(trap_div_by_zero, "eq", rhs, zero_reg), Ins("rem", dst, lhs, rhs, 0)>>

emit_i32_remu(dst, lhs, rhs, trap_div_by_zero) ==
  <<Branch(trap_div_by_zero, "eq", rhs, zero_reg), Ins("remu", dst, lhs, rhs, 0)>>

\* Unsigned division of words, bit by bit from the top: <<quotient,
\* remainder>>.  Division by zero gives the all-ones quotient and the
\* dividend as remainder, as the M extension defines.
UDivStep(qr, a, b, k) ==
  LET r2 == Add32(Sll32(qr[2], 1), W(0, BitOf(a, k)))
      fits == qr[2][1] >= Half \div 2 \/ ~Ult32(r2, b)
  IN  <<IF fits THEN Add32(qr[1], Sll32(One32, k)) ELSE qr[1],
        IF fits THEN Sub32(r2, b) ELSE r2>>
UDivMod(a, b) ==
  LET step[j \in 0..32] ==
        IF j = 0 THEN <<Zero32, Zero32>>
        ELSE CHOOSE x \in {UDivStep(qr, a, b, 32 - j) : qr \in {step[j - 1]}} : TRUE
  IN  step[32]

Abs32(a) == IF a[1] >= Half \div 2 THEN Neg32(a) ELSE a

\* div, divu, rem and remu of the M extension.
DivOps == {"div", "divu", "rem", "remu"}
DivValue(op, a, b) ==
  LET u == UDivMod(a, b)
      s == UDivMod(Abs32(a), Abs32(b))
      na == a[1] >= Half \div 2
      nb == b[1] >= Half \div 2
  IN  CASE op = "divu" -> u[1]
        [] op = "remu" -> u[2]
        [] op = "div" -> IF b = Zero32 THEN MinusOne
                         ELSE IF na # nb THEN Neg32(s[1]) ELSE s[1]
        [] op = "rem" -> IF na THEN Neg32(s[2]) ELSE s[2]

DivExec(i, st) ==
  CASE i.op \in DivOps ->
         [st EXCEPT !.gp = SetReg(@, i.rd, DivValue(i.op, st.gp[i.rs1], st.gp[i.rs2]))]
    [] i.op = "CompareImm" ->
         [st EXCEPT !.gp = SetReg(@, i.rd,
            IF Holds32(i.imm.cond, st.gp[i.rs1], i.imm.value)
            THEN One32 ELSE Zero32)]
    [] OTHER -> MachExec(i, st, 0)

DivEmitters == {"emit_i32_divs", "emit_i32_divu", "emit_i32_rems", "emit_i32_remu"}
DivOperands == {Zero32, One32, W(0, 7), kMinInt, MinusOne, W(Half \div 2, 1)}
DivLabels == {"trap_div_by_zero", "trap_div_unrepresentable"}

InitDiv ==
  /\ mcode = <<>>
  /\ mphase = "start"
  /\ margs = [op |-> "emit_i32_divs", dst |-> "a0", lhs |-> Zero32,
              rhs |-> Zero32, divided |-> FALSE]
  /\ mpc = 1
  /\ \E a \in DivOperands, b \in DivOperands :
       mst = [MachInit(0) EXCEPT !.gp["a0"] = a, !.gp["a1"] = b]
  /\ OthersIdle("mach")

EmitI32Div ==
  /\ mphase = "start"
  /\ \E op \in DivEmitters, dst \in {"a0", "a1", "a2"} :
       /\ margs' = [margs EXCEPT !.op = op, !.dst = dst, !.lhs = mst.gp["a0"],
                                 !.rhs = mst.gp["a1"]]
       /\ mcode' =
            CASE op = "emit_i32_divs" ->
                   emit_i32_divs(dst, "a0", "a1", "trap_div_by_zero",
                                 "trap_div_unrepresentable")
              [] op = "emit_i32_divu" -> emit_i32_divu(dst, "a0", "a1", "trap_div_by_zero")
              [] op = "emit_i32_rems" -> emit_i32_rems(dst, "a0", "a1", "trap_div_by_zero")
              [] OTHER -> emit_i32_remu(dst, "a0", "a1", "trap_div_by_zero")
  /\ mphase' = "running"
  /\ UNCHANGED <<mpc, mst>>
  /\ OthersUnchanged("mach")

\* The hart executes the next instruction; a taken branch leaves the
\* sequence for its label.
DivStep ==
  /\ mphase = "running"
  /\ mpc <= Len(mcode)
  /\ LET i == mcode[mpc]
     IN  IF i.op = "Branch" /\ Holds32(i.imm.cond, mst.gp[i.rs1], mst.gp[i.rs2])
         THEN /\ mphase' = i.imm.label
              /\ UNCHANGED <<mpc, mst, margs>>
         ELSE /\ mst' = IF i.op = "Branch" THEN mst ELSE DivExec(i, mst)
              /\ mpc' = mpc + 1
              /\ margs' = [margs EXCEPT !.divided = @ \/ i.op \in DivOps]
              /\ UNCHANGED mphase
  /\ UNCHANGED mcode
  /\ OthersUnchanged("mach")

NextDiv == EmitI32Div \/ DivStep

SpecDiv == InitDiv /\ [][NextDiv]_vars

DivFinal == mphase \in DivLabels \/ (mphase = "running" /\ mpc = Len(mcode) + 1)
DivByZero == margs.rhs = Zero32
DivUnrepresentable ==
  margs.op = "emit_i32_divs" /\ margs.lhs = kMinInt /\ margs.rhs = MinusOne

\* C25: emit_i32_divs branches to trap_div_by_zero exactly when the divisor
\* is 0, otherwise to trap_div_unrepresentable exactly when the dividend is
\* INT32_MIN and the divisor -1, and executes the divide only when neither
\* holds; emit_i32_divu, emit_i32_rems and emit_i32_remu branch to
\* trap_div_by_zero exactly when the divisor is 0 and divide otherwise.
C25_DivTraps ==
  /\ margs.divided => ~DivByZero /\ ~DivUnrepresentable
  /\ DivFinal =>
       /\ mphase = "trap_div_by_zero" <=> DivByZero
       /\ mphase = "trap_div_unrepresentable" <=> DivUnrepresentable
       /\ margs.divided <=> ~DivByZero /\ ~DivUnrepresentable
       /\ margs.divided =>
            mst.gp[margs.dst] = DivValue(mcode[Len(mcode)].op, margs.lhs, margs.rhs)

C25_Witness ==
  /\ mphase = "trap_div_unrepresentable"
  /\ margs.op = "emit_i32_divs"
  /\ margs.lhs = kMinInt
  /\ margs.rhs = MinusOne

----------------------------------------------------------------------------
(* Float-to-integer conversions with a trap check.                          *)

nullptr == "nullptr"

\* The truncating conversions of the macro-assembler:
\* Trunc_x_y(rd, fs, result) leaves the converted value in rd and 0 in
\* result when the input is NaN or out of the range of the target type.
Trunc(primitive, rd, fs, result) == Ins(primitive, rd, fs, result, 0)
TruncWord == {"Trunc_w_s", "Trunc_uw_s", "Trunc_w_d", "Trunc_uw_d"}
TruncLong == {"Trunc_l_s", "Trunc_ul_s", "Trunc_l_d", "Trunc_ul_d"}

TrapOpcodes ==
  {"kExprI32SConvertF32", "kExprI32UConvertF32", "kExprI32SConvertF64",
   "kExprI32UConvertF64", "kExprI64SConvertF32", "kExprI64UConvertF32",
   "kExprI64SConvertF64", "kExprI64UConvertF64", "kExprF32ConvertF64"}

\* The primitive the inner switch selects for an opcode.
ConversionPrimitive(opcode) ==
  CASE opcode = "kExprI32SConvertF32" -> "Trunc_w_s"
    [] opcode = "kExprI32UConvertF32" -> "Trunc_uw_s"
    [] opcode = "kExprI32SConvertF64" -> "Trunc_w_d"
    [] opcode = "kExprI32UConvertF64" -> "Trunc_uw_d"
    [] opcode = "kExprI64SConvertF32" -> "Trunc_l_s"
    [] opcode = "kExprI64UConvertF32" -> "Trunc_ul_s"
    [] opcode = "kExprI64SConvertF64" -> "Trunc_l_d"
    [] opcode = "kExprI64UConvertF64" -> "Trunc_ul_d"
    [] OTHER -> "fcvt_s_d"

\* LiftoffAssembler::emit_type_conversion, the case of the opcodes that are
\* checked for a trap.
emit_type_conversion(opcode, dst, src, trap, ub) ==
  IF opcode \notin TrapOpcodes THEN Unreachable
  ELSE (IF opcode = "kExprF32ConvertF64"
        THEN <<Ins("fcvt_s_d", dst.fp, src.fp, no_reg, 0)>>
        ELSE <<Trunc(ConversionPrimitive(opcode), GpOf(dst, ub), src.fp, kScratchReg)>>)
       \o (IF trap # nullptr
           THEN <<Branch(trap, "eq", kScratchReg, zero_reg)>> ELSE <<>>)

\* Floating-point inputs: the bits as a single and as a double, the integer
\* types whose range holds the truncated value ("s" is the single format),
\* and what fcvt.w and fcvt.wu return.
IntMax == W(Half \div 2 - 1, Half - 1)
FloatSample(f32, f64, fits, w, uw) ==
  [f32 |-> f32, f64 |-> f64, fits |-> fits, w |-> w, uw |-> uw]
FloatSamples ==
  {FloatSample(<<0, 0, 128, 63>>, <<0, 0, 0, 0, 0, 0, 240, 63>>,
               {"w", "uw", "l", "ul", "s"}, One32, One32),
   FloatSample(<<0, 0, 128, 191>>, <<0, 0, 0, 0, 0, 0, 240, 191>>,
               {"w", "l", "s"}, MinusOne, Zero32),
   FloatSample(<<0, 0, 0, 191>>, <<0, 0, 0, 0, 0, 0, 224, 191>>,
               {"w", "uw", "l", "ul", "s"}, Zero32, Zero32),
   FloatSample(<<94, 208, 50, 79>>, <<0, 0, 0, 192, 11, 90, 230, 65>>,
               {"uw", "l", "ul", "s"}, IntMax, W(45776, 24064)),
   FloatSample(<<0, 0, 0, 80>>, <<0, 0, 0, 0, 0, 0, 0, 66>>,
               {"l", "ul", "s"}, IntMax, MinusOne),
   FloatSample(<<0, 0, 128, 98>>, <<0, 0, 0, 0, 0, 0, 80, 68>>,
               {"s"}, IntMax, MinusOne),
   FloatSample(<<0, 0, 192, 127>>, <<0, 0, 0, 0, 0, 0, 248, 127>>,
               {}, IntMax, MinusOne)}

\* The sample a floating-point register holds, read as the primitive's
\* source format.
SampleOf(primitive, bits) ==
  IF primitive \in {"Trunc_w_s", "Trunc_uw_s", "Trunc_l_s", "Trunc_ul_s"}
  THEN CHOOSE s \in FloatSamples : s.f32 = SubSeq(bits, 1, 4)
  ELSE CHOOSE s \in FloatSamples : s.f64 = bits
TargetOf(primitive) ==
  CASE primitive \in {"Trunc_w_s", "Trunc_w_d"} -> "w"
    [] primitive \in {"Trunc_uw_s", "Trunc_uw_d"} -> "uw"
    [] primitive \in {"Trunc_l_s", "Trunc_l_d"} -> "l"
    [] primitive \in {"Trunc_ul_s", "Trunc_ul_d"} -> "ul"
    [] OTHER -> "s"

\* The 64-bit truncations are fcvt.l / fcvt.lu, which a RV32 hart does not
\* implement: it raises an illegal-instruction exception.
ConvExec(i, st) ==
  CASE i.op \in TruncWord ->
         LET s == SampleOf(i.op, st.fr[i.rs1])
             value == IF TargetOf(i.op) = "w" THEN s.w ELSE s.uw
             ok == IF TargetOf(i.op) \in s.fits THEN One32 ELSE Zero32
         IN  [st EXCEPT !.gp = SetReg(SetReg(@, i.rd, value), i.rs2, ok)]
    [] i.op \in TruncLong -> [st EXCEPT !.trap = TRUE]
    [] i.op = "fcvt_s_d" ->
         [st EXCEPT !.fr[i.rd] = SampleOf(i.op, st.fr[i.rs1]).f32 \o Rep(4, 255)]
    [] OTHER -> MachExec(i, st, 0)

ConvDst(opcode) ==
  CASE opcode = "kExprF32ConvertF64" -> FpReg("fa1")
    [] ConversionPrimitive(opcode) \in TruncLong -> PairReg("a0", "a1")
    [] OTHER -> GpReg("a0")

InitConv ==
  /\ mcode = <<>>
  /\ mphase = "start"
  /\ margs = [opcode |-> "kExprI32SConvertF32", trap |-> nullptr,
              sample |-> CHOOSE s \in FloatSamples : s.fits = {},
              tested |-> "none", written |-> FALSE]
  /\ mpc = 1
  /\ \E s \in FloatSamples, single \in BOOLEAN, scratch \in {Zero32, One32} :
       mst = [MachInit(0) EXCEPT
                !.fr["fa0"] = IF single THEN s.f32 \o Rep(4, 255) ELSE s.f64,
                !.gp[kScratchReg] = scratch]
  /\ OthersIdle("mach")

\* emit_type_conversion(opcode, dst, fa0, trap) for an opcode whose source
\* format is the one of the value in fa0.
EmitTypeConversion ==
  /\ mphase = "start"
  /\ \E opcode \in TrapOpcodes, trap \in {nullptr, "trap"} :
       \E ub \in UbChoices(ConvDst(opcode)) :
         LET p == ConversionPrimitive(opcode)
             single == SubSeq(mst.fr["fa0"], 5, 8) = Rep(4, 255)
         IN  /\ single <=> p \in {"Trunc_w_s", "Trunc_uw_s", "Trunc_l_s", "Trunc_ul_s"}
             /\ margs' = [margs EXCEPT !.opcode = opcode, !.trap = trap,
                                       !.sample = SampleOf(p, mst.fr["fa0"])]
             /\ IF ConvDst(opcode).cls = "pair" /\ ub = no_reg
                THEN mphase' = "fatal" /\ UNCHANGED mcode
                ELSE /\ mcode' = emit_type_conversion(opcode, ConvDst(opcode),
                                                      FpReg("fa0"), trap, ub)
                     /\ mphase' = "running"
  /\ UNCHANGED <<mpc, mst>>
  /\ OthersUnchanged("mach")

\* The hart executes the next instruction; a taken branch leaves the
\* sequence for the trap label.  margs records whether the register a
\* branch tests was written by the sequence.
ConvStep ==
  /\ mphase = "running"
  /\ mpc <= Len(mcode)
  /\ LET i == mcode[mpc]
         st == IF i.op = "Branch" THEN mst ELSE ConvExec(i, mst)
         taken == i.op = "Branch" /\ Holds32(i.imm.cond, mst.gp[i.rs1], mst.gp[i.rs2])
     IN  /\ mst' = st
         /\ mphase' = IF taken THEN "trapped" ELSE IF st.trap THEN "trap" ELSE "running"
         /\ mpc' = IF taken THEN mpc ELSE mpc + 1
         /\ margs' = [margs EXCEPT
                        !.written = @ \/ (i.op \in TruncWord /\ i.rs2 = kScratchReg),
                        !.tested = IF i.op # "Branch" THEN @
                                   ELSE IF margs.written THEN "written" ELSE "stale"]
  /\ UNCHANGED mcode
  /\ OthersUnchanged("mach")

NextConv == EmitTypeConversion \/ ConvStep

SpecConv == InitConv /\ [][NextConv]_vars

ConvFinal ==
  mphase \in {"trapped", "trap"} \/ (mphase = "running" /\ mpc = Len(mcode) + 1)
ConvOutOfRange ==
  TargetOf(ConversionPrimitive(margs.opcode)) \notin margs.sample.fits

\* C26: for every conversion opcode of the trap-checking path, when a trap
\* label is given, the scratch register the branch tests has been written by
\* the conversion primitive of the same lowering, and the branch to the trap
\* label is taken exactly when the input is NaN or out of the range of the
\* target type.
C26_TrapChecksOwnResult ==
  ConvFinal /\ margs.trap # nullptr =>
    /\ margs.tested = "written"
    /\ mphase = "trapped" <=> ConvOutOfRange

----------------------------------------------------------------------------
(* FillStackSlotsWithZero.                                                  *)

\* BranchShort(label, cond, rs, Operand(rt)) to a label bound at index
\* target of the sequence.
BranchShort(target, cond, rs, rt) ==
  Ins("BranchShort", no_reg, rs, rt, [target |-> target, cond |-> cond])

\* The stores of the straight-line path, for remainder = size, size -
\* kStackSlotSize, ... while remainder >= kStackSlotSize, and one more when
\* a remainder is left.
FillStraightLine(start, size) ==
  LET slots == size \div kStackSlotSize
      remainder == size % kStackSlotSize
  IN  [k \in 1..slots |->
         Sw(zero_reg, GetStackSlot(start + size - (k - 1) * kStackSlotSize))]
      \o (IF remainder # 0
          THEN <<Sw(zero_reg, GetStackSlot(start + remainder))>> ELSE <<>>)

\* LiftoffAssembler::FillStackSlotsWithZero(start, size).
\* RecordUsedSpillOffset emits no code.
FillStackSlotsWithZero(start, size) ==
  IF size <= 12 * kStackSlotSize
  THEN FillStraightLine(start, size)
  ELSE LET head == Push2("a1", "a0")
                   \o AddImm("a0", fp, 0 - start - size)
                   \o AddImm("a1", fp, 0 - start)
           loop == Len(head) + 1
       IN  head
           \o <<Sw(zero_reg, MemOperand("a0", 0)),
                Ins("addi", "a0", "a0", no_reg, kSystemPointerSize),
                BranchShort(loop, "ne", "a0", "a1")>>
           \o Pop("a1", "a0")

FillStarts == {8, 16}
FillSizes == {4, 8, 12, 16, 12 * kStackSlotSize, 12 * kStackSlotSize + 4,
              13 * kStackSlotSize}
FillMem == [a \in (ToInt(StackPointer) - 16)..(ToInt(FramePointer) + 15) |-> 170]

InitFill ==
  /\ mcode = <<>>
  /\ mphase = "start"
  /\ margs = [start |-> 8, size |-> 4]
  /\ mpc = 1
  /\ \E p \in MachPatterns : mst = [MachInit(p) EXCEPT !.mem = FillMem]
  /\ OthersIdle("mach")

EmitFillStackSlotsWithZero ==
  /\ mphase = "start"
  /\ \E start \in FillStarts, size \in FillSizes :
       /\ margs' = [margs EXCEPT !.start = start, !.size = size]
       /\ mcode' = FillStackSlotsWithZero(start, size)
  /\ mphase' = "running"
  /\ UNCHANGED <<mpc, mst>>
  /\ OthersUnchanged("mach")

\* The hart executes the next instruction; a taken branch continues at its
\* target.
FillStep ==
  /\ mphase = "running"
  /\ mpc <= Len(mcode)
  /\ LET i == mcode[mpc]
         st == IF i.op = "BranchShort" THEN mst ELSE MachExec(i, mst, 0)
         taken == i.op = "BranchShort"
                  /\ Holds32(i.imm.cond, mst.gp[i.rs1], mst.gp[i.rs2])
     IN  /\ mst' = st
         /\ mphase' = IF st.trap THEN "trap" ELSE "running"
         /\ mpc' = IF taken THEN i.imm.target ELSE mpc + 1
  /\ UNCHANGED <<mcode, margs>>
  /\ OthersUnchanged("mach")

NextFill == EmitFillStackSlotsWithZero \/ FillStep

SpecFill == InitFill /\ [][NextFill]_vars

FillDone == mphase = "running" /\ mpc = Len(mcode) + 1
FillRange ==
  (ToInt(FramePointer) - margs.start - margs.size)..(ToInt(FramePointer) - margs.start - 1)

\* C27: FillStackSlotsWithZero(start, size) zeroes every byte of
\* [fp - start - size, fp - start) and writes no byte of the frame outside
\* it, for every positive size that is a multiple of 4, in the straight-line
\* path (up to 12 stack slots) and in the loop path alike.
C27_FillZeroesRange ==
  FillDone =>
    \A a \in ToInt(StackPointer)..(ToInt(FramePointer) + 15) :
      mst.mem[a] = IF a \in FillRange THEN 0 ELSE FillMem[a]

----------------------------------------------------------------------------
(* 64-bit shifts by an immediate amount.                                    *)

\* ShlPair / SarPair / ShrPair with an immediate amount.  The primitive may
\* write its two scratch registers before it reads its sources, and writes
\* its destination one register at a time: a left shift the high word first,
\* a right shift the low word first.  Each write reads the source registers
\* at the moment it executes.
PairShiftImm(emit_shift, dst_low, dst_high, src_low, src_high, shift, scratch1, scratch2) ==
  LET low == Ins("PairLow", dst_low, src_low, src_high,
                 [shift |-> emit_shift, shamt |-> scratch1])
      high == Ins("PairHigh", dst_high, src_low, src_high,
                  [shift |-> emit_shift, shamt |-> scratch1])
  IN  <<Ins("li", scratch1, no_reg, no_reg, shift),
        Ins("li", scratch2, no_reg, no_reg, 32)>>
      \o (IF emit_shift = "ShlPair" THEN <<high, low>> ELSE <<low, high>>)

emit_i64_shli(dst, src, amount) ==
  LET src_low == EnsureNoAlias(src.low, dst, 0)
      aliased == src.high = dst.high
      src_high == IF aliased THEN kScratchReg ELSE src.high
  IN  src_low.code
      \o (IF aliased THEN <<Ins("mv", kScratchReg, src.high, no_reg, 0)>> ELSE <<>>)
      \o PairShiftImm("ShlPair", dst.low, dst.high, src_low.reg, src_high, amount,
                      kScratchReg, kScratchReg2)

emit_i64_sari(dst, src, amount) ==
  LET src_high == EnsureNoAlias(src.high, dst, 0)
  IN  src_high.code
      \o PairShiftImm("SarPair", dst.low, dst.high, src.low, src_high.reg, amount,
                      kScratchReg, kScratchReg2)

emit_i64_shri(dst, src, amount) ==
  LET src_high == EnsureNoAlias(src.high, dst, 0)
  IN  src_high.code
      \o PairShiftImm("ShrPair", dst.low, dst.high, src.low, src_high.reg, amount,
                      kScratchReg, kScratchReg2)

\* dst identical to src = (a0, a1), disjoint from it, and overlapping it in
\* one register or in both.
ShiftImmDsts ==
  {PairReg("a0", "a1"), PairReg("a2", "a3"), PairReg("a1", "a2"),
   PairReg("a2", "a1"), PairReg("a2", "a0"), PairReg("a0", "a2"),
   PairReg("a1", "a0")}
ShiftImmAmounts == {0, 1, 31, 32, 33, 63}

InitShiftImm ==
  /\ mcode = <<>>
  /\ mphase = "start"
  /\ margs = [dst |-> ShiftSrc, shift |-> "ShlPair", x |-> I64Zero, n |-> 0]
  /\ mpc = 1
  /\ \E v \in ShiftValues :
       mst = [MachInit(0) EXCEPT !.gp["a0"] = v[1], !.gp["a1"] = v[2]]
  /\ OthersIdle("mach")

\* One call of emit_i64_shli / emit_i64_sari / emit_i64_shri.
EmitShiftImm ==
  /\ mphase = "start"
  /\ \E dst \in ShiftImmDsts, amount \in ShiftImmAmounts,
        emit_shift \in ShiftPrimitives :
       /\ mcode' = CASE emit_shift = "ShlPair" -> emit_i64_shli(dst, ShiftSrc, amount)
                     [] emit_shift = "SarPair" -> emit_i64_sari(dst, ShiftSrc, amount)
                     [] OTHER -> emit_i64_shri(dst, ShiftSrc, amount)
       /\ margs' = [dst |-> dst, shift |-> emit_shift,
                    x |-> RegValue("kI64", ShiftSrc, mst), n |-> amount]
  /\ mphase' = "running"
  /\ UNCHANGED <<mpc, mst>>
  /\ OthersUnchanged("mach")

NextShiftImm == EmitShiftImm \/ MachStep

SpecShiftImm == InitShiftImm /\ [][NextShiftImm]_vars

\* The source registers handed to the primitive.
PrimitiveSrc ==
  UNION {{mcode[k].rs1, mcode[k].rs2} :
           k \in {j \in 1..Len(mcode) : mcode[j].op \in {"PairLow", "PairHigh"}}}
ShiftImmDone == mphase = "running" /\ mpc > Len(mcode)

\* C28: in emit_i64_shli, emit_i64_sari and emit_i64_shri, for every choice
\* of the dst and src pairs, no source register handed to the pair primitive
\* is one of the two scratch registers handed to the same call or a
\* destination register written before the source is read: the source halves
\* are intact when read, and dst ends with the shifted 64-bit value.
C28_ShiftImmSourcesIntact ==
  mphase = "running" =>
    /\ PrimitiveSrc \cap {kScratchReg, kScratchReg2} = {}
    /\ ShiftImmDone =>
         RegValue("kI64", margs.dst, mst) = Shift64(margs.shift, margs.x, FromInt(margs.n))

----------------------------------------------------------------------------
(* The baseline compiler's PrologueFillFrame.                               *)

kInterpreterAccumulatorRegister == "a0"
kJavaScriptCallNewTargetRegister == "a3"
kMaxInt == 2147483647
kLoopUnrollSize == 8
\* The word LoadRoot(kInterpreterAccumulatorRegister, kUndefinedValue) loads.
UndefinedValue == W(0, 2989)
LoadRoot(rd, value) == Ins("li", rd, no_reg, no_reg, ToInt(value))

\* Add(sp, sp, -(kPointerSize * count)) and one Sw of the accumulator for
\* every i in 0 .. count - 1.  kPointerSize is kSystemPointerSize.
FillUndefined(count) ==
  AddImm(sp, sp, 0 - (kSystemPointerSize * count))
  \o [i \in 1..count |->
        Sw(kInterpreterAccumulatorRegister, MemOperand(sp, (i - 1) * kSystemPointerSize))]

\* BaselineCompiler::PrologueFillFrame for a bytecode with register_count
\* registers whose incoming new-target register has index new_target_index
\* (kMaxInt: none).  Both branches on the frame size emit the same code.
PrologueFillFrame(register_count, new_target_index) ==
  LET has_new_target == new_target_index # kMaxInt
      remaining == IF has_new_target THEN register_count - (new_target_index + 1)
                   ELSE register_count
  IN  <<LoadRoot(kInterpreterAccumulatorRegister, UndefinedValue)>>
      \o (IF has_new_target
          THEN FillUndefined(new_target_index) \o Push(kJavaScriptCallNewTargetRegister)
          ELSE <<>>)
      \o (IF remaining < 2 * kLoopUnrollSize
          THEN FillUndefined(remaining)
          ELSE FillUndefined(remaining))

MaxRegisterCount == 2 * kLoopUnrollSize + 2
PrologueSp == Add32(StackPointer, FromInt(4 * MaxRegisterCount + 16))
RegisterCounts == {0, 1, 2, 3, 2 * kLoopUnrollSize, MaxRegisterCount}

InitPrologue ==
  /\ mcode = <<>>
  /\ mphase = "start"
  /\ margs = [register_count |-> 0, new_target_index |-> kMaxInt, stored |-> <<>>]
  /\ mpc = 1
  /\ \E p \in MachPatterns : mst = [MachInit(p) EXCEPT !.gp[sp] = PrologueSp]
  /\ OthersIdle("mach")

\* The prologue is emitted for a bytecode with or without a new-target
\* register; its index is at most the register count (the DCHECK_LE).
EmitPrologueFillFrame ==
  /\ mphase = "start"
  /\ \E register_count \in RegisterCounts :
       \E new_target_index \in (0..register_count) \cup {kMaxInt} :
         /\ margs' = [margs EXCEPT !.register_count = register_count,
                                   !.new_target_index = new_target_index]
         /\ mcode' = PrologueFillFrame(register_count, new_target_index)
  /\ mphase' = "running"
  /\ UNCHANGED <<mpc, mst>>
  /\ OthersUnchanged("mach")

\* The hart executes the next instruction; margs records the address of
\* every store.
PrologueStep ==
  /\ mphase = "running"
  /\ mpc <= Len(mcode)
  /\ LET i == mcode[mpc]
         st == MachExec(i, mst, 0)
     IN  /\ mst' = st
         /\ mphase' = IF st.trap THEN "trap" ELSE "running"
         /\ margs' = [margs EXCEPT !.stored =
                        IF i.op = "sw"
                        THEN Append(@, ToInt(Add32(mst.gp[i.rs1], FromInt(i.imm))))
                        ELSE @]
  /\ mpc' = mpc + 1
  /\ UNCHANGED mcode
  /\ OthersUnchanged("mach")

NextPrologue == EmitPrologueFillFrame \/ PrologueStep

SpecPrologue == InitPrologue /\ [][NextPrologue]_vars

PrologueDone == mphase = "running" /\ mpc = Len(mcode) + 1
\* The address of the slot of register index, counted from the top.
RegisterSlot(index) == ToInt(PrologueSp) - kSystemPointerSize * (index + 1)
RegisterSlots == {RegisterSlot(index) : index \in 0..(margs.register_count - 1)}

PrologueFilled ==
  /\ mst.gp[sp] = Sub32(PrologueSp, FromInt(kSystemPointerSize * margs.register_count))
  /\ {margs.stored[k] : k \in 1..Len(margs.stored)} = RegisterSlots
  /\ Len(margs.stored) = margs.register_count
  /\ \A index \in 0..(margs.register_count - 1) :
       BytesWord(LoadBytes(mst.mem, RegisterSlot(index), 4)) =
         IF index = margs.new_target_index
         THEN mst.gp[kJavaScriptCallNewTargetRegister] ELSE UndefinedValue

\* C29 as stated: for every register_count >= 0 and every new-target index
\* from 0 to register_count inclusive (or none), PrologueFillFrame lowers sp
\* by register_count * kPointerSize in total and stores to each of those
\* slots exactly once and to no other: the new-target register into the slot
\* of the new-target index, undefined into every other slot.
C29_FillFrame ==
  PrologueDone => PrologueFilled

----------------------------------------------------------------------------
(* Register moves and MoveStackValue.                                      *)

\* TurboAssembler::Move(FPURegister dst, FPURegister src)
MoveDouble(dst, src) == IF dst = src THEN <<>> ELSE <<Ins("fmv_d", dst, src, no_reg, 0)>>

\* LiftoffAssembler::Move(dst, src, kind), both overloads: Register and
\* DoubleRegister.
LiftoffMove(dst, src, kind) ==
  IF dst.cls = "gp" THEN Move(dst.gp, src.gp)
  ELSE IF kind # "kS128" THEN MoveDouble(dst.fp, src.fp)
  ELSE <<Ins("vmv_vv", dst.fp, dst.fp, no_reg, 0)>>

\* LiftoffAssembler::MoveStackValue(dst_offset, src_offset, kind), with reg
\* the register GetUnusedRegister hands out.
MoveStackValue(dst_offset, src_offset, kind, reg) ==
  Fill(reg, src_offset, kind) \o Spill(dst_offset, reg, kind)

\* Kinds a single gp register and an fp register can hold.
GpKinds == {"kI32", "kRef", "kOptRef", "kRtt"}
FpKinds == {"kF32", "kF64", "kS128"}
MoveRegs(kind) == IF kind \in GpKinds THEN {GpReg(r) : r \in SpillGpRegs}
                  ELSE {FpReg(f) : f \in SpillFpRegs}
MoveOffsets == {32, 64, 112}
\* Every stack byte starts with a content of its own.
MoveMem == [a \in DOMAIN StackMem |-> a % 256]
\* Number of bytes of a value of the kind, and the value a slot holds.
ValueSize(kind) ==
  CASE kind \in {"kI64", "kF64"} -> kStackSlotSize
    [] kind = "kS128" -> 2 * kStackSlotSize
    [] OTHER -> kStackSlotSize \div 2
StackValue(kind, offset, mem) == LoadBytes(mem, ToInt(FramePointer) - offset, ValueSize(kind))

InitMove ==
  /\ mcode = <<>>
  /\ mphase = "start"
  /\ margs = [op |-> "none", kind |-> "kI32", dst |-> GpReg("a0"), src |-> GpReg("a0"),
              dst_offset |-> 0, value |-> <<>>]
  /\ mpc = 1
  /\ mst \in {[MachInit(p) EXCEPT !.mem = MoveMem] : p \in MachPatterns}
  /\ OthersIdle("mach")

\* Lowering of a move between two different registers of one class.
EmitMove ==
  /\ mphase = "start"
  /\ \E kind \in GpKinds \cup FpKinds :
       \E dst \in MoveRegs(kind), src \in MoveRegs(kind) :
         /\ dst # src
         /\ mcode' = LiftoffMove(dst, src, kind)
         /\ margs' = [margs EXCEPT !.op = "Move", !.kind = kind, !.dst = dst, !.src = src,
                                   !.value = RegValue(kind, src, mst)]
  /\ mphase' = "running"
  /\ UNCHANGED <<mpc, mst>>
  /\ OthersUnchanged("mach")

\* Lowering of a move between two different stack slots.
EmitMoveStackValue ==
  /\ mphase = "start"
  /\ \E kind \in ValueKinds, dst_offset \in MoveOffsets, src_offset \in MoveOffsets :
       \E reg \in RegsFor(kind) :
         /\ dst_offset # src_offset
         /\ mcode' = MoveStackValue(dst_offset, src_offset, kind, reg)
         /\ margs' = [margs EXCEPT !.op = "MoveStackValue", !.kind = kind,
                                   !.dst_offset = dst_offset,
                                   !.value = StackValue(kind, src_offset, mst.mem)]
  /\ mphase' = "running"
  /\ UNCHANGED <<mpc, mst>>
  /\ OthersUnchanged("mach")

NextMove == EmitMove \/ EmitMoveStackValue \/ MachStep

SpecMove == InitMove /\ [][NextMove]_vars

MoveDone == mpc > Len(mcode) /\ margs.op # "none"
Moved ==
  IF margs.op = "Move"
  THEN /\ RegValue(margs.kind, margs.dst, mst) = margs.value
       /\ RegValue(margs.kind, margs.src, mst) = margs.value
  ELSE StackValue(margs.kind, margs.dst_offset, mst.mem) = margs.value

\* C30: Move(dst, src, kind) with dst different from src leaves in dst the
\* value src held and leaves src unchanged, for every kind a register of
\* the class can hold, Vector128 in an fp register included; and
\* MoveStackValue leaves in the destination slot the full value of the
\* source slot.
C30_MoveCopies ==
  /\ mphase \notin {"fatal", "trap"}
  /\ MoveDone => Moved

====
